---- MODULE Spec2Model ----
(***************************************************************************)
(* A model of harmonic_inference/data/piece.py: the construction of a      *)
(* ScorePiece from note and chord rows (reduction of repeated chords and   *)
(* keys, alignment of chords to notes and of keys to chords), the windowed *)
(* note input of a chord, and the dictionary form of a piece.              *)
(*                                                                         *)
(* Positions.  The code keeps an onset or offset as a tuple                *)
(* (measure index, beat) and compares two of them as Python compares       *)
(* tuples.  The model numbers the positions of a piece in that order, so a *)
(* position is a natural number and the length of a range is a difference. *)
(*                                                                         *)
(* Indices.  Sequences are 1-based here and 0-based in the code.  Every    *)
(* index the code stores or returns (chord_changes, chord_ranges,          *)
(* key_changes, row numbers of a returned array) keeps its 0-based value;  *)
(* the element the code writes xs[i] is xs[i + 1] in the model.            *)
(***************************************************************************)
EXTENDS Integers, Sequences, FiniteSets, TLC

VARIABLES
    notes_df,        \* the note rows handed to the constructor
    chords_df,       \* the chord (label) rows handed to the constructor
    opts,            \* use_inversions / use_relative of the constructor
    pc,              \* "start", "built", "failed", or "call" / "returned"
    piece,           \* the fields of the ScorePiece
    args,            \* the arguments of the last call of a function
    ret              \* what the last call returned

vars == <<notes_df, chords_df, opts, pc, piece, args, ret>>

-----------------------------------------------------------------------------
(* Bounds of the model. *)

MaxNotes == 3        \* note rows of a piece
MaxChords == 3       \* chord rows of a piece
MaxTime == 2         \* last position at which a note or a chord may begin

-----------------------------------------------------------------------------
(* Helpers over sequences. *)

Range(s) == {s[i] : i \in DOMAIN s}

SeqsUpTo(S, lo, hi) == UNION {[1..n -> S] : n \in lo..hi}

\* xs[mask] of numpy: the elements of xs at the positions where mask is true.
RECURSIVE ApplyMask(_, _)
ApplyMask(xs, mask) ==
    IF xs = <<>> THEN <<>>
    ELSE IF Head(mask) THEN <<Head(xs)>> \o ApplyMask(Tail(xs), Tail(mask))
         ELSE ApplyMask(Tail(xs), Tail(mask))

\* np.arange(len(flags))[flags]: the 0-based positions at which flags is true.
RECURSIVE TruePositions(_, _)
TruePositions(flags, i) ==
    IF i > Len(flags) THEN <<>>
    ELSE IF flags[i] THEN <<i - 1>> \o TruePositions(flags, i + 1)
         ELSE TruePositions(flags, i + 1)

NonDecreasing(s) == \A i \in 1..(Len(s) - 1) : s[i] <= s[i + 1]
StrictlyIncreasing(s) == \A i \in 1..(Len(s) - 1) : s[i] < s[i + 1]

-----------------------------------------------------------------------------
(* Note, Chord and Key objects.  Their classes are not part of the sources *)
(* at hand; the operators below follow the specification's data model.     *)

\* Note.from_series: absent for a pitch outside the line-of-fifths range.
NoteIsNone(row) == ~row.tpc_ok

\* The pitch class is the row's tpc and the octave its midi number divided
\* by the twelve semitones of an octave.
NoteFromSeries(row) ==
    [cls |-> "Note", pitch_class |-> row.tpc, octave |-> row.midi \div 12,
     onset |-> row.onset, offset |-> row.offset, duration |-> row.offset - row.onset]

\* Note.get_midi_note_number: a step on the line of fifths is seven semitones.
get_midi_note_number(note) == 12 * note.octave + ((7 * note.pitch_class) % 12)

\* Chord.from_series: absent for '@none', a missing numeral or a bad local key.
ChordIsNone(row) == ~row.numeral_ok

ChordFromSeries(row, use_inversion) ==
    [cls |-> "Chord", root |-> row.root, chord_type |-> row.chord_type,
     inversion |-> IF use_inversion THEN row.inversion ELSE 0,
     onset |-> row.onset, offset |-> row.offset, duration |-> row.duration]

\* The interval of a key numeral, in steps on the line of fifths.
NumeralInterval(numeral) == IF numeral = "V" THEN 1 ELSE 0

NumeralMode(numeral) == IF numeral \in {"i", "v"} THEN "minor" ELSE "major"

\* Key.from_series: the local key, and the key reached through relativeroot.
KeyIsNone(row) == row.relativeroot = "Error"

KeyFromSeries(row) ==
    LET local_tonic == NumeralInterval(row.localkey)
        local_mode  == NumeralMode(row.localkey)
    IN  [cls |-> "Key", local_tonic |-> local_tonic, local_mode |-> local_mode,
         relative_tonic |-> IF row.relativeroot = "NA" THEN local_tonic
                            ELSE local_tonic + NumeralInterval(row.relativeroot),
         relative_mode |-> IF row.relativeroot = "NA" THEN local_mode
                           ELSE NumeralMode(row.relativeroot)]

\* Chord.is_repeated(other, use_inversion).
ChordIsRepeated(self, other, use_inversion) ==
    /\ self.root = other.root
    /\ self.chord_type = other.chord_type
    /\ use_inversion => self.inversion = other.inversion

\* Key.is_repeated(other, use_relative).
KeyIsRepeated(self, other, use_relative) ==
    IF use_relative
    THEN self.relative_tonic = other.relative_tonic /\ self.relative_mode = other.relative_mode
    ELSE self.local_tonic = other.local_tonic /\ self.local_mode = other.local_mode

\* next_obj.is_repeated(prev_obj, **kwargs), for a Chord or a Key.
is_repeated(self, other, kwargs) ==
    IF self.cls = "Chord" THEN ChordIsRepeated(self, other, kwargs)
    ELSE KeyIsRepeated(self, other, kwargs)

\* Chord.merge_with(next_chord): the survivor takes the later chord's offset
\* and adds its duration.
merge_with(self, next_chord) ==
    [self EXCEPT !.offset = next_chord.offset,
                 !.duration = self.duration + next_chord.duration]

-----------------------------------------------------------------------------
(* get_reduction_mask *)

\* The loop comparing every element with the first one instead of with the
\* element before it.
RECURSIVE MaskLoopComparesFirst(_, _, _, _)
MaskLoopComparesFirst(inputs, kwargs, prev_index, mask) ==
    IF prev_index + 1 >= Len(inputs) THEN mask
    ELSE LET prev_obj == inputs[1]
             next_obj == inputs[prev_index + 2]
         IN  MaskLoopComparesFirst(inputs, kwargs, prev_index + 1,
                      IF is_repeated(next_obj, prev_obj, kwargs)
                      THEN [mask EXCEPT ![prev_index + 2] = FALSE]
                      ELSE mask)

\* The loop marking the earlier element of a repeated pair instead of the
\* later one.
RECURSIVE MaskLoopDropsEarlier(_, _, _, _)
MaskLoopDropsEarlier(inputs, kwargs, prev_index, mask) ==
    IF prev_index + 1 >= Len(inputs) THEN mask
    ELSE LET prev_obj == inputs[prev_index + 1]
             next_obj == inputs[prev_index + 2]
         IN  MaskLoopDropsEarlier(inputs, kwargs, prev_index + 1,
                      IF is_repeated(next_obj, prev_obj, kwargs)
                      THEN [mask EXCEPT ![prev_index + 1] = FALSE]
                      ELSE mask)

\* The loop of get_reduction_mask, at pair prev_index (0-based) of
\* zip(inputs[:-1], inputs[1:]).
RECURSIVE MaskLoop(_, _, _, _)
MaskLoop(inputs, kwargs, prev_index, mask) ==
    IF prev_index + 1 >= Len(inputs) THEN mask
    ELSE LET prev_obj == inputs[prev_index + 1]
             next_obj == inputs[prev_index + 2]
         IN  MaskLoop(inputs, kwargs, prev_index + 1,
                      IF is_repeated(next_obj, prev_obj, kwargs)
                      THEN [mask EXCEPT ![prev_index + 2] = FALSE]
                      ELSE mask)

get_reduction_mask(inputs, kwargs) ==
    MaskLoop(inputs, kwargs, 0, [i \in 1..Len(inputs) |-> TRUE])

\* The loop dropping the masked chords without merging them.
RECURSIVE MergeLoopDropsOnly(_, _, _, _)
MergeLoopDropsOnly(chords_list, mask, i, chords) ==
    IF i > Len(chords_list) THEN chords
    ELSE MergeLoopDropsOnly(chords_list, mask, i + 1,
                   IF mask[i] THEN Append(chords, chords_list[i]) ELSE chords)

\* The loop that keeps the chords the mask keeps and merges every other chord
\* into the last chord kept.
RECURSIVE MergeLoop(_, _, _, _)
MergeLoop(chords_list, mask, i, chords) ==
    IF i > Len(chords_list) THEN chords
    ELSE MergeLoop(chords_list, mask, i + 1,
                   IF mask[i] THEN Append(chords, chords_list[i])
                   ELSE [chords EXCEPT ![Len(chords)] = merge_with(@, chords_list[i])])

ReduceChords(chords_list, use_inversions) ==
    MergeLoop(chords_list, get_reduction_mask(chords_list, use_inversions), 1, <<>>)

-----------------------------------------------------------------------------
(* Alignment of chords to notes. *)

\* The cursor loop without its stop at the last note: the cursor may leave
\* the notes.
RECURSIVE AdvanceCursorPastEnd(_, _, _)
AdvanceCursorPastEnd(notes, note_index, chord) ==
    IF note_index < Len(notes) /\ notes[note_index + 1].onset < chord.onset
    THEN AdvanceCursorPastEnd(notes, note_index + 1, chord)
    ELSE note_index

\* The cursor loop passing also the notes that begin with the chord.
RECURSIVE AdvanceCursorPastEqual(_, _, _)
AdvanceCursorPastEqual(notes, note_index, chord) ==
    IF note_index + 1 < Len(notes) /\ notes[note_index + 1].onset <= chord.onset
    THEN AdvanceCursorPastEqual(notes, note_index + 1, chord)
    ELSE note_index

\* The while loop that advances the note cursor for one chord.
RECURSIVE AdvanceCursor(_, _, _)
AdvanceCursor(notes, note_index, chord) ==
    IF note_index + 1 < Len(notes) /\ notes[note_index + 1].onset < chord.onset
    THEN AdvanceCursor(notes, note_index + 1, chord)
    ELSE note_index

\* The for loop over the chords; the cursor is carried from chord to chord.
RECURSIVE AlignLoop(_, _, _, _, _)
AlignLoop(notes, chords, chord_index, note_index, chord_changes) ==
    IF chord_index > Len(chords) THEN chord_changes
    ELSE LET stop == AdvanceCursor(notes, note_index, chords[chord_index])
         IN  AlignLoop(notes, chords, chord_index + 1, stop,
                       [chord_changes EXCEPT ![chord_index] = stop])

GetChordChanges(notes, chords) ==
    AlignLoop(notes, chords, 1, 0, [i \in 1..Len(chords) |-> 0])

\* The start of a range as the first note that ends after onset, whenever
\* it begins.
RECURSIVE RangeStartByOffsetLoop(_, _, _)
RangeStartByOffsetLoop(onset, notes, note_id) ==
    IF note_id >= Len(notes) THEN Len(notes)
    ELSE IF notes[note_id + 1].offset > onset
         THEN note_id
         ELSE RangeStartByOffsetLoop(onset, notes, note_id + 1)

get_range_start_by_offset(onset, notes) == RangeStartByOffsetLoop(onset, notes, 0)

\* get_range_start: the first note that begins at or after onset, or is
\* still sounding after it; len(notes) when there is none.
RECURSIVE RangeStartLoop(_, _, _)
RangeStartLoop(onset, notes, note_id) ==
    IF note_id >= Len(notes) THEN Len(notes)
    ELSE IF notes[note_id + 1].onset >= onset \/ notes[note_id + 1].offset > onset
         THEN note_id
         ELSE RangeStartLoop(onset, notes, note_id + 1)

get_range_start(onset, notes) == RangeStartLoop(onset, notes, 0)

GetChordRanges(notes, chords, chord_changes) ==
    [i \in 1..Len(chords) |->
        <<get_range_start(chords[i].onset, notes),
          IF i < Len(chords) THEN chord_changes[i + 1] ELSE Len(notes)>>]

-----------------------------------------------------------------------------
(* Keys of a piece. *)

\* key_cols.fillna("-1")
FillNa(v) == IF v = "NA" THEN "-1" ELSE v

KeyCols(row) == <<FillNa(row.localkey), FillNa(row.relativeroot)>>

\* key_cols.ne(key_cols.shift()).fillna(True), reduced by any(axis=1): a
\* row of key columns that differs from the row before it; the first row
\* always does.
KeyColChanges(rows) ==
    [i \in 1..Len(rows) |-> IF i = 1 THEN TRUE ELSE KeyCols(rows[i]) # KeyCols(rows[i - 1])]

-----------------------------------------------------------------------------
(* ScorePiece *)

NoCache == [set |-> FALSE, val |-> <<>>]

\* ScorePiece.__init__
ScorePiece(notes, chords, keys, chord_changes, chord_ranges, key_changes) ==
    [notes |-> <<>> \o notes, chords |-> <<>> \o chords, keys |-> keys,
     chord_changes |-> chord_changes, chord_ranges |-> chord_ranges,
     key_changes |-> key_changes, duration_cache |-> NoCache]

NoPiece == ScorePiece(<<>>, <<>>, <<>>, <<>>, <<>>, <<>>)

\* The row numbers (0-based) of the rows that give an object: absent[i]
\* tells whether row i gave None.
RECURSIVE KeptIlocs(_, _)
KeptIlocs(absent, i) ==
    IF i > Len(absent) THEN <<>>
    ELSE IF absent[i] THEN KeptIlocs(absent, i + 1)
         ELSE <<i - 1>> \o KeptIlocs(absent, i + 1)

NoteIlocs(n_df) == KeptIlocs([i \in 1..Len(n_df) |-> NoteIsNone(n_df[i])], 1)
ChordIlocs(c_df) == KeptIlocs([i \in 1..Len(c_df) |-> ChordIsNone(c_df[i])], 1)
KeyIlocs(rows) == KeptIlocs([i \in 1..Len(rows) |-> KeyIsNone(rows[i])], 1)

\* get_score_piece_from_data_frames can go on only with at least two notes
\* and two chords: np.squeeze turns a single [object, row number] pair into
\* an array without a length.
CanBuildFromDataFrames(note_ilocs, chord_ilocs) ==
    /\ Len(note_ilocs) # 1
    /\ Len(chord_ilocs) >= 2

\* get_score_piece_from_data_frames, given the frames have enough rows.
BuildFromDataFrames(n_df, c_df, use_inversions, use_relative) ==
    LET note_ilocs  == NoteIlocs(n_df)
        notes       == [i \in 1..Len(note_ilocs) |-> NoteFromSeries(n_df[note_ilocs[i] + 1])]
        all_ilocs   == ChordIlocs(c_df)
        chords_list == [i \in 1..Len(all_ilocs) |->
                            ChordFromSeries(c_df[all_ilocs[i] + 1], use_inversions)]
        non_repeated_mask == get_reduction_mask(chords_list, use_inversions)
        chords      == MergeLoop(chords_list, non_repeated_mask, 1, <<>>)
        chord_ilocs == ApplyMask(all_ilocs, non_repeated_mask)
        chord_changes == GetChordChanges(notes, chords)
        chord_ranges  == GetChordRanges(notes, chords, chord_changes)
        key_rows    == [i \in 1..Len(chord_ilocs) |-> c_df[chord_ilocs[i] + 1]]
        all_key_changes == TruePositions(KeyColChanges(key_rows), 1)
        change_rows == [j \in 1..Len(all_key_changes) |-> key_rows[all_key_changes[j] + 1]]
        kept_keys   == KeyIlocs(change_rows)
        keys_list   == [j \in 1..Len(kept_keys) |-> KeyFromSeries(change_rows[kept_keys[j] + 1])]
        key_mask    == get_reduction_mask(keys_list, use_relative)
    IN  [ok |-> Len(key_mask) = Len(all_key_changes),
         piece |-> IF Len(key_mask) = Len(all_key_changes)
                   THEN ScorePiece(notes, chords, ApplyMask(keys_list, key_mask),
                                   chord_changes, chord_ranges,
                                   ApplyMask(all_key_changes, key_mask))
                   ELSE NoPiece]

\* get_score_piece_from_music_xml: the notes of the score, one chord and one
\* key per label row of positive length, no reduction of the chords.
BuildFromMusicXml(n_df, c_df) ==
    LET notes  == [i \in 1..Len(n_df) |-> NoteFromSeries(n_df[i])]
        labels == SelectSeq(c_df, LAMBDA row : row.offset > row.onset)
        chords == [i \in 1..Len(labels) |-> ChordFromSeries(labels[i], TRUE)]
        chord_changes == GetChordChanges(notes, chords)
        chord_ranges  == GetChordRanges(notes, chords, chord_changes)
        keys_list == [i \in 1..Len(labels) |-> KeyFromSeries(labels[i])]
        all_key_changes == [i \in 1..Len(labels) |-> i - 1]
        key_mask  == get_reduction_mask(keys_list, TRUE)
    IN  ScorePiece(notes, chords, ApplyMask(keys_list, key_mask),
                   chord_changes, chord_ranges, ApplyMask(all_key_changes, key_mask))

-----------------------------------------------------------------------------
(* The rows of a piece. *)

\* A note row: its pitch (line of fifths, counted from C, and MIDI number)
\* and the positions at which it begins and ends.
NoteRow(onset, offset, tpc, midi) ==
    [tpc_ok |-> TRUE, tpc |-> tpc, midi |-> midi, onset |-> onset, offset |-> offset]

\* A chord row: its label, its key columns, and the positions at which it
\* begins and ends (mc_next / onset_next).
ChordRow(onset, offset, root, inversion, localkey, relativeroot) ==
    [numeral_ok |-> TRUE, root |-> root, chord_type |-> "M", inversion |-> inversion,
     onset |-> onset, offset |-> offset, duration |-> offset - onset,
     localkey |-> localkey, relativeroot |-> relativeroot]

Times == 0..MaxTime

InOnsetOrder(rows) == \A i \in 1..(Len(rows) - 1) : rows[i].onset <= rows[i + 1].onset

\* The label rows of a score follow one another: each begins after the row
\* before it and ends where the next row begins.
OneAfterAnother(rows) == \A i \in 1..(Len(rows) - 1) : rows[i].onset < rows[i + 1].onset

WithNextOnsets(rows) ==
    [i \in 1..Len(rows) |->
        LET end == IF i < Len(rows) THEN rows[i + 1].onset ELSE rows[i].onset + 1
        IN  [rows[i] EXCEPT !.offset = end, !.duration = end - rows[i].onset]]

NoteFrames(rows, lo, hi) == {s \in SeqsUpTo(rows, lo, hi) : InOnsetOrder(s)}

ChordFrames(rows, lo, hi) ==
    {WithNextOnsets(s) : s \in {r \in SeqsUpTo(rows, lo, hi) : OneAfterAnother(r)}}

NoteRows == {NoteRow(t, t + 1, 0, 60) : t \in Times}

ChordRows == {ChordRow(t, t + 1, r, 0, "I", rr) : t \in Times, r \in {0, 1}, rr \in {"NA", "V"}}

NoArgs == [fn |-> "none"]

Init ==
    /\ notes_df \in NoteFrames(NoteRows, 1, MaxNotes)
    /\ chords_df \in ChordFrames(ChordRows, 1, MaxChords)
    /\ opts \in [use_inversions : {TRUE}, use_relative : BOOLEAN]
    /\ pc = "start"
    /\ piece = NoPiece
    /\ args = NoArgs
    /\ ret = <<>>

\* get_score_piece_from_data_frames(notes_df, chords_df, measures_df, ...)
FromDataFrames ==
    /\ pc = "start"
    /\ LET note_ilocs  == NoteIlocs(notes_df)
           chord_ilocs == ChordIlocs(chords_df)
           built == BuildFromDataFrames(notes_df, chords_df,
                                        opts.use_inversions, opts.use_relative)
       IN  IF CanBuildFromDataFrames(note_ilocs, chord_ilocs) /\ built.ok
           THEN pc' = "built" /\ piece' = built.piece
           ELSE pc' = "failed" /\ piece' = NoPiece
    /\ args' = [fn |-> "get_score_piece_from_data_frames"]
    /\ UNCHANGED <<notes_df, chords_df, opts, ret>>

\* get_score_piece_from_music_xml(music_xml_path, label_csv_path)
FromMusicXml ==
    /\ pc = "start"
    /\ pc' = "built"
    /\ piece' = BuildFromMusicXml(notes_df, chords_df)
    /\ args' = [fn |-> "get_score_piece_from_music_xml"]
    /\ UNCHANGED <<notes_df, chords_df, opts, ret>>

Next ==
    \/ FromDataFrames
    \/ FromMusicXml

Spec == Init /\ [][Next]_vars

-----------------------------------------------------------------------------
(* Construction from chord rows with repeated labels. *)

\* The lengths of the chord rows, as in a label table whose rows last two or
\* three positions.
Durations == {2, 3}

\* Rows that follow one another from position 0, each as long as its duration.
RECURSIVE StartingAt(_, _)
StartingAt(rows, onset) ==
    IF rows = <<>> THEN <<>>
    ELSE <<[Head(rows) EXCEPT !.onset = onset, !.offset = onset + Head(rows).duration]>>
         \o StartingAt(Tail(rows), onset + Head(rows).duration)

TimedChordRows ==
    {ChordRow(0, d, r, inv, "I", "NA") : d \in Durations, r \in {0, 1}, inv \in {0, 1}}

KeyedChordRows ==
    {ChordRow(0, 1, r, 0, lk, rr) : r \in {0, 1}, lk \in {"I", "V"}, rr \in {"NA", "V"}}

InitReduce ==
    /\ notes_df = <<NoteRow(0, 1, 0, 60), NoteRow(1, 2, 0, 60)>>
    /\ chords_df \in {StartingAt(s, 0) :
                         s \in SeqsUpTo(TimedChordRows, 2, MaxChords)
                                \cup SeqsUpTo(KeyedChordRows, 2, MaxChords)}
    /\ opts \in [use_inversions : BOOLEAN, use_relative : BOOLEAN]
    /\ pc = "start"
    /\ piece = NoPiece
    /\ args = NoArgs
    /\ ret = <<>>

SpecReduce == InitReduce /\ [][Next]_vars

-----------------------------------------------------------------------------
(* get_reduction_mask as a function of its inputs. *)

MaxLen == 4          \* objects handed to get_reduction_mask

ChordObjects ==
    {ChordFromSeries(ChordRow(0, 1, r, inv, "I", "NA"), TRUE) : r \in {0, 1}, inv \in {0, 1}}

KeyObjects ==
    {KeyFromSeries(ChordRow(0, 1, 0, 0, lk, rr)) : lk \in {"I", "V"}, rr \in {"NA", "V"}}

InitMask ==
    /\ notes_df = <<>>
    /\ chords_df = <<>>
    /\ opts = [use_inversions |-> TRUE, use_relative |-> TRUE]
    /\ pc = "call"
    /\ piece = NoPiece
    /\ args \in [fn : {"get_reduction_mask"},
                  inputs : SeqsUpTo(ChordObjects, 0, MaxLen) \cup SeqsUpTo(KeyObjects, 0, MaxLen),
                  kwargs : BOOLEAN]
    /\ ret = <<>>

\* get_reduction_mask(inputs, kwargs)
CallGetReductionMask ==
    /\ pc = "call"
    /\ args.fn = "get_reduction_mask"
    /\ pc' = "returned"
    /\ ret' = get_reduction_mask(args.inputs, args.kwargs)
    /\ UNCHANGED <<notes_df, chords_df, opts, piece, args>>

NextMask == CallGetReductionMask

SpecMask == InitMask /\ [][NextMask]_vars

-----------------------------------------------------------------------------
(* get_chord_note_input *)

Max(a, b) == IF a >= b THEN a ELSE b
Min(a, b) == IF a <= b THEN a ELSE b

\* An optional value: None, or a value.
None == [none |-> TRUE, val |-> 0]
Some(v) == [none |-> FALSE, val |-> v]

\* The pair (note.octave, note.get_midi_note_number()) and the order in
\* which Python compares two such pairs.
PitchOf(note) == <<note.octave, get_midi_note_number(note)>>
PitchLess(a, b) == a[1] < b[1] \/ (a[1] = b[1] /\ a[2] < b[2])

\* min(pitch_list) and max(pitch_list): a pass over the list that keeps the
\* first smallest (largest) pair.
RECURSIVE MinPitchFrom(_, _, _)
MinPitchFrom(pitch_list, i, best) ==
    IF i > Len(pitch_list) THEN best
    ELSE MinPitchFrom(pitch_list, i + 1,
                      IF PitchLess(pitch_list[i], best) THEN pitch_list[i] ELSE best)

RECURSIVE MaxPitchFrom(_, _, _)
MaxPitchFrom(pitch_list, i, best) ==
    IF i > Len(pitch_list) THEN best
    ELSE MaxPitchFrom(pitch_list, i + 1,
                      IF PitchLess(best, pitch_list[i]) THEN pitch_list[i] ELSE best)

\* The slice taken from every note of the piece instead of from the window.
ChordNotesWholePiece(notes, first_note_index, last_note_index) == notes

\* notes[first_note_index:last_note_index]
ChordNotes(notes, first_note_index, last_note_index) ==
    SubSeq(notes, first_note_index + 1, last_note_index)

\* np.sum(duration_cache[from:to])
RECURSIVE SumCache(_, _, _)
SumCache(duration_cache, from, to) ==
    IF from >= to \/ from >= Len(duration_cache) THEN 0
    ELSE duration_cache[from + 1] + SumCache(duration_cache, from + 1, to)

\* The onset of a note relative to the chord's change index.
NoteOnset(duration_cache, note_index, change_index) ==
    IF note_index < change_index
    THEN Some(0 - SumCache(duration_cache, note_index, change_index))
    ELSE IF note_index > change_index
         THEN Some(SumCache(duration_cache, change_index, note_index))
         ELSE Some(0)

\* A row of zeros, and the vector Note.to_vec gives for its arguments.  The
\* vector of a note is never all zero: its pitch class is one-hot.
ZeroRow == [zero |-> TRUE]

NoteToVec(note, chord_onset, chord_offset, chord_duration, min_pitch, max_pitch, note_onset, dur_from_prev, dur_to_next) ==
    [zero |-> FALSE, note |-> note, chord_onset |-> chord_onset,
     chord_offset |-> chord_offset, chord_duration |-> chord_duration,
     min_pitch |-> min_pitch, max_pitch |-> max_pitch, note_onset |-> note_onset,
     dur_from_prev |-> dur_from_prev, dur_to_next |-> dur_to_next]

\* The rows of the result written at the top instead of after the padding.
PlaceVectorsAtTop(note_vectors, rows, start, end) ==
    [k \in 1..rows |-> IF k <= Len(note_vectors) THEN note_vectors[k] ELSE ZeroRow]

\* The rows of the result with the padding crossing over to the other end of
\* the notes.
PlaceVectorsWrapped(note_vectors, rows, start, end) ==
    [k \in 1..rows |-> note_vectors[((k - 1 - start) % Len(note_vectors)) + 1]]

\* chord_input = np.zeros(rows, ...); chord_input[start:end] = note_vectors
PlaceVectors(note_vectors, rows, start, end) ==
    [k \in 1..rows |->
        IF start <= k - 1 /\ k - 1 < end THEN note_vectors[k - start] ELSE ZeroRow]

\* The input built with the onset and offset derived from the note indices
\* whatever the chord's own are.
get_chord_note_input_from_indices(a) ==
    LET window_onset_index  == a.onset_index - a.window
        window_offset_index == a.offset_index + a.window
        first_note_index == Max(window_onset_index, 0)
        last_note_index  == Min(window_offset_index, Len(a.notes))
        chord_notes == ChordNotes(a.notes, first_note_index, last_note_index)
        pitch_list  == [i \in 1..Len(chord_notes) |-> PitchOf(chord_notes[i])]
        min_pitch   == MinPitchFrom(pitch_list, 2, pitch_list[1])
        max_pitch   == MaxPitchFrom(pitch_list, 2, pitch_list[1])
        note_vectors ==
            [i \in 1..(last_note_index - first_note_index) |->
                LET note_index == first_note_index + i - 1
                IN  NoteToVec(a.notes[note_index + 1],
                        a.chord_onset, a.chord_offset,
                        a.chord_duration, min_pitch, max_pitch,
                        IF a.duration_cache.none THEN None
                        ELSE NoteOnset(a.duration_cache.val, note_index, a.change_index),
                        IF note_index = 0 THEN None
                        ELSE Some(a.duration_cache.val[note_index]),
                        Some(a.duration_cache.val[note_index + 1]))]
        rows  == window_offset_index - window_onset_index
        start == 0 + (first_note_index - window_onset_index)
        end   == rows - (window_offset_index - last_note_index)
    IN  IF Len(chord_notes) = 0
        THEN [raised |-> TRUE, rows |-> <<>>]
        ELSE [raised |-> FALSE, rows |-> PlaceVectors(note_vectors, rows, start, end)]

\* get_chord_note_input(notes, measures_df, chord_onset, chord_offset,
\* chord_duration, change_index, onset_index, offset_index, window,
\* duration_cache, chord); min() of no notes raises.
get_chord_note_input(a) ==
    LET chord_onset_aligns  == a.chord.none \/ a.chord.val.onset = a.chord_onset
        chord_offset_aligns == a.chord.none \/ a.chord.val.offset = a.chord_offset
        window_onset_index  == a.onset_index - a.window
        window_offset_index == a.offset_index + a.window
        first_note_index == Max(window_onset_index, 0)
        last_note_index  == Min(window_offset_index, Len(a.notes))
        chord_notes == ChordNotes(a.notes, first_note_index, last_note_index)
        pitch_list  == [i \in 1..Len(chord_notes) |-> PitchOf(chord_notes[i])]
        min_pitch   == MinPitchFrom(pitch_list, 2, pitch_list[1])
        max_pitch   == MaxPitchFrom(pitch_list, 2, pitch_list[1])
        note_vectors ==
            [i \in 1..(last_note_index - first_note_index) |->
                LET note_index == first_note_index + i - 1
                IN  NoteToVec(a.notes[note_index + 1],
                        IF chord_onset_aligns THEN a.chord_onset ELSE a.chord.val.onset,
                        IF chord_offset_aligns THEN a.chord_offset ELSE a.chord.val.offset,
                        a.chord_duration, min_pitch, max_pitch,
                        IF a.duration_cache.none \/ ~chord_onset_aligns THEN None
                        ELSE NoteOnset(a.duration_cache.val, note_index, a.change_index),
                        IF note_index = 0 THEN None
                        ELSE Some(a.duration_cache.val[note_index]),
                        Some(a.duration_cache.val[note_index + 1]))]
        rows  == window_offset_index - window_onset_index
        start == 0 + (first_note_index - window_onset_index)
        end   == rows - (window_offset_index - last_note_index)
    IN  IF Len(chord_notes) = 0
        THEN [raised |-> TRUE, rows |-> <<>>]
        ELSE [raised |-> FALSE, rows |-> PlaceVectors(note_vectors, rows, start, end)]

MaxWindowNotes == 10     \* notes of the piece handed to get_chord_note_input
MaxWindow == 5           \* notes added on each side of the chord's notes

\* The notes of a piece of n notes, one per position, all of one pitch but
\* for one note that is higher or lower than the others.
WindowNotes(n, odd, midi) ==
    [k \in 1..n |-> NoteFromSeries(NoteRow(k - 1, k, 0, IF k = odd THEN midi ELSE 60))]

InitWindow ==
    /\ notes_df = <<>>
    /\ chords_df = <<>>
    /\ opts = [use_inversions |-> TRUE, use_relative |-> TRUE]
    /\ pc = "call"
    /\ piece = NoPiece
    /\ \E n \in 1..MaxWindowNotes, odd \in 1..MaxWindowNotes, midi \in {47, 72},
          onset_index \in 0..(MaxWindowNotes - 1), offset_index \in 1..MaxWindowNotes,
          window \in 0..MaxWindow :
          /\ odd <= n
          /\ onset_index < offset_index
          /\ offset_index <= n
          /\ args = [fn |-> "get_chord_note_input",
                     notes |-> WindowNotes(n, odd, midi),
                     chord_onset |-> onset_index,
                     chord_offset |-> offset_index,
                     chord_duration |-> offset_index - onset_index,
                     change_index |-> onset_index,
                     onset_index |-> onset_index,
                     offset_index |-> offset_index,
                     window |-> window,
                     duration_cache |-> Some([k \in 1..n |-> 1]),
                     chord |-> None]
    /\ ret = <<>>

\* get_chord_note_input(...)
CallGetChordNoteInput ==
    /\ pc = "call"
    /\ args.fn = "get_chord_note_input"
    /\ LET out == get_chord_note_input(args)
       IN  /\ pc' = IF out.raised THEN "raised" ELSE "returned"
           /\ ret' = out.rows
    /\ UNCHANGED <<notes_df, chords_df, opts, piece, args>>

NextWindow == CallGetChordNoteInput

SpecWindow == InitWindow /\ [][NextWindow]_vars

-----------------------------------------------------------------------------
(* The duration cache and the dictionary form of a piece. *)

\* ru.get_range_length(onset, offset, measures_df): the distance between two
\* positions.
get_range_length(onset, offset) == offset - onset

\* The list with the last entry measured to the onset of the last chord.
ComputeDurationCacheToOnset(p) ==
    LET fake_last_note == [onset |-> p.chords[Len(p.chords)].onset]
        next_notes == Tail(p.notes) \o <<fake_last_note>>
    IN  [i \in 1..Len(p.notes) |-> get_range_length(p.notes[i].onset, next_notes[i].onset)]

\* The list ScorePiece.get_duration_cache computes: for every note the
\* distance to the onset of the next note, and for the last note the
\* distance to the offset of the last chord.
ComputeDurationCache(p) ==
    LET fake_last_note == [onset |-> p.chords[Len(p.chords)].offset]
        next_notes == Tail(p.notes) \o <<fake_last_note>>
    IN  [i \in 1..Len(p.notes) |-> get_range_length(p.notes[i].onset, next_notes[i].onset)]

\* What ScorePiece.get_duration_cache returns.
DurationCacheOf(p) ==
    IF p.duration_cache.set THEN p.duration_cache.val ELSE ComputeDurationCache(p)

\* Note.to_dict, Chord.to_dict and Key.to_dict give the arguments that
\* build the object again; Note(**d), Chord(**d) and Key(**d) build it.
ObjectToDict(obj) == [f \in (DOMAIN obj) \ {"cls"} |-> obj[f]]

ObjectFromDict(cls, d) == [f \in (DOMAIN d) \cup {"cls"} |-> IF f = "cls" THEN cls ELSE d[f]]

\* ScorePiece.to_dict
to_dict(p) ==
    [notes |-> [i \in 1..Len(p.notes) |-> ObjectToDict(p.notes[i])],
     chords |-> [i \in 1..Len(p.chords) |-> ObjectToDict(p.chords[i])],
     keys |-> [i \in 1..Len(p.keys) |-> ObjectToDict(p.keys[i])],
     chord_changes |-> p.chord_changes,
     chord_ranges |-> p.chord_ranges,
     key_changes |-> p.key_changes]

\* The piece built with the two lists of change indices in each other's place.
get_score_piece_from_dict_swapped(piece_dict) ==
    ScorePiece([i \in 1..Len(piece_dict.notes) |-> ObjectFromDict("Note", piece_dict.notes[i])],
               [i \in 1..Len(piece_dict.chords) |-> ObjectFromDict("Chord", piece_dict.chords[i])],
               [i \in 1..Len(piece_dict.keys) |-> ObjectFromDict("Key", piece_dict.keys[i])],
               piece_dict.key_changes,
               piece_dict.chord_ranges,
               piece_dict.chord_changes)

\* get_score_piece_from_dict(measures_df, piece_dict)
get_score_piece_from_dict(piece_dict) ==
    ScorePiece([i \in 1..Len(piece_dict.notes) |-> ObjectFromDict("Note", piece_dict.notes[i])],
               [i \in 1..Len(piece_dict.chords) |-> ObjectFromDict("Chord", piece_dict.chords[i])],
               [i \in 1..Len(piece_dict.keys) |-> ObjectFromDict("Key", piece_dict.keys[i])],
               piece_dict.chord_changes,
               piece_dict.chord_ranges,
               piece_dict.key_changes)

\* The cache computed at every call, and the note that stands for the end of
\* the piece left at the end of the piece's notes.
get_duration_cache_keeping_fake_note(p) ==
    LET fake_last_note == [p.notes[Len(p.notes)] EXCEPT !.onset = p.chords[Len(p.chords)].offset]
    IN  [self |-> [p EXCEPT !.notes = p.notes \o <<fake_last_note>>,
                            !.duration_cache = [set |-> TRUE, val |-> ComputeDurationCache(p)]],
         ret |-> ComputeDurationCache(p)]

\* ScorePiece.get_duration_cache: the cache is computed at the first call
\* and kept; self is the piece after the call and ret what the call returns.
get_duration_cache(p) ==
    IF ~p.duration_cache.set
    THEN [self |-> [p EXCEPT !.duration_cache = [set |-> TRUE, val |-> ComputeDurationCache(p)]],
          ret |-> ComputeDurationCache(p)]
    ELSE [self |-> p, ret |-> p.duration_cache.val]

\* piece.get_duration_cache()
GetDurationCache ==
    /\ pc = "built"
    /\ piece' = get_duration_cache(piece).self
    /\ ret' = get_duration_cache(piece).ret
    /\ args' = [fn |-> "get_duration_cache"]
    /\ UNCHANGED <<notes_df, chords_df, opts, pc>>

\* piece.to_dict()
ToDict ==
    /\ pc = "built"
    /\ pc' = "dict"
    /\ ret' = to_dict(piece)
    /\ UNCHANGED <<notes_df, chords_df, opts, piece, args>>

\* get_score_piece_from_dict(measures_df, piece_dict) on the dictionary that
\* to_dict returned; the piece it returns is kept beside the first one.
FromDict ==
    /\ pc = "dict"
    /\ pc' = "loaded"
    /\ args' = [fn |-> "get_score_piece_from_dict", piece_dict |-> ret]
    /\ ret' = get_score_piece_from_dict(ret)
    /\ UNCHANGED <<notes_df, chords_df, opts, piece>>

NextDict ==
    \/ FromDataFrames
    \/ FromMusicXml
    \/ GetDurationCache
    \/ ToDict
    \/ FromDict

SpecDict == InitReduce /\ [][NextDict]_vars

-----------------------------------------------------------------------------
(* Properties of a constructed piece. *)

Built == pc = "built"
BuiltFromDataFrames == pc = "built" /\ args.fn = "get_score_piece_from_data_frames"

NumNotes == Len(piece.notes)
NumChords == Len(piece.chords)

AllWithin(s, n) == \A i \in DOMAIN s : 0 <= s[i] /\ s[i] < n

\* The number of intervals [changes[i], changes[i+1]) (the last one ending
\* at n) that hold the index x.
IntervalEnd(changes, i, n) == IF i < Len(changes) THEN changes[i + 1] ELSE n
IntervalsWith(changes, n, x) ==
    Cardinality({i \in DOMAIN changes : changes[i] <= x /\ x < IntervalEnd(changes, i, n)})

\* C1, as stated: in every piece built by get_score_piece_from_data_frames
\* chord_changes is strictly increasing within [0, len(notes)) and
\* key_changes is strictly increasing within [0, len(chords)).
C1_AsStated ==
    BuiltFromDataFrames =>
        /\ StrictlyIncreasing(piece.chord_changes)
        /\ AllWithin(piece.chord_changes, NumNotes)
        /\ StrictlyIncreasing(piece.key_changes)
        /\ AllWithin(piece.key_changes, NumChords)

\* C1, amended: in every piece with at least one note built by
\* get_score_piece_from_data_frames chord_changes never decreases (two
\* chords may share a note index) and lies within [0, len(notes)), and
\* key_changes is strictly increasing within [0, len(chords)).
C1_ChangesOrdered ==
    (BuiltFromDataFrames /\ NumNotes > 0) =>
        /\ NonDecreasing(piece.chord_changes)
        /\ AllWithin(piece.chord_changes, NumNotes)
        /\ StrictlyIncreasing(piece.key_changes)
        /\ AllWithin(piece.key_changes, NumChords)

\* A piece in which two chords begin at the same note and the key changes.
C1_Witness ==
    /\ BuiltFromDataFrames
    /\ \E i \in 1..(NumChords - 1) : piece.chord_changes[i] = piece.chord_changes[i + 1]
    /\ Len(piece.key_changes) >= 2

\* C2, as stated: every note index lies in exactly one chord interval and
\* every chord index in exactly one key interval.
C2_AsStated ==
    Built =>
        /\ \A n \in 0..(NumNotes - 1) : IntervalsWith(piece.chord_changes, NumNotes, n) = 1
        /\ \A c \in 0..(NumChords - 1) : IntervalsWith(piece.key_changes, NumChords, c) = 1

\* C2, amended: every note index from chord_changes[0] on lies in exactly
\* one chord interval, the notes before chord_changes[0] lie in none, and
\* every chord index lies in exactly one key interval.
C2_Partition ==
    Built =>
        /\ \A n \in 0..(NumNotes - 1) :
              IntervalsWith(piece.chord_changes, NumNotes, n)
                 = IF n >= piece.chord_changes[1] THEN 1 ELSE 0
        /\ \A c \in 0..(NumChords - 1) : IntervalsWith(piece.key_changes, NumChords, c) = 1

\* A piece whose first chord begins after its first note, with a chord that
\* holds no note and a change of key.
C2_Witness ==
    /\ Built
    /\ piece.chord_changes[1] > 0
    /\ \E i \in 1..(NumChords - 1) : piece.chord_changes[i] = piece.chord_changes[i + 1]
    /\ Len(piece.key_changes) >= 2

\* The note indices whose note does not begin before the chord.
NotEarlier(chord) == {j \in 0..(NumNotes - 1) : piece.notes[j + 1].onset >= chord.onset}

Smallest(S) == CHOOSE x \in S : \A y \in S : x <= y

-----------------------------------------------------------------------------
(* Properties of the reduction. *)

MaskReturned == pc = "returned" /\ args.fn = "get_reduction_mask"

\* C4: the mask is as long as the inputs, keeps element 0 and drops element
\* i > 0 exactly when inputs[i].is_repeated(inputs[i-1]); an element that
\* repeats an earlier one but not the one before it is kept.
C4_MaskDropsAdjacentRepeats ==
    MaskReturned =>
        LET inputs == args.inputs
        IN  /\ Len(ret) = Len(inputs)
            /\ Len(inputs) > 0 => ret[1]
            /\ \A i \in 2..Len(inputs) :
                  ret[i] = ~is_repeated(inputs[i], inputs[i - 1], args.kwargs)
            /\ \A i \in 1..Len(inputs) : \A j \in (i + 2)..Len(inputs) :
                  (/\ is_repeated(inputs[j], inputs[i], args.kwargs)
                   /\ ~is_repeated(inputs[j], inputs[j - 1], args.kwargs)) => ret[j]

\* A call on a label, a repeat of it, another label and the first label again.
C4_Witness ==
    /\ MaskReturned
    /\ Len(args.inputs) = 4
    /\ ret = <<TRUE, FALSE, TRUE, TRUE>>
    /\ is_repeated(args.inputs[4], args.inputs[1], args.kwargs)

NoAdjacentRepeats(objs, kwargs) ==
    \A i \in 1..(Len(objs) - 1) : ~is_repeated(objs[i + 1], objs[i], kwargs)

\* C5: the reduced chords and the reduced keys of a piece hold no two
\* consecutive elements that repeat one another, and reducing them once
\* more returns them unchanged.
C5_ReducedOnce ==
    /\ BuiltFromDataFrames =>
          /\ NoAdjacentRepeats(piece.chords, opts.use_inversions)
          /\ ReduceChords(piece.chords, opts.use_inversions) = piece.chords
    /\ Built =>
          LET use_relative ==
                  IF args.fn = "get_score_piece_from_data_frames" THEN opts.use_relative ELSE TRUE
          IN  /\ NoAdjacentRepeats(piece.keys, use_relative)
              /\ ApplyMask(piece.keys, get_reduction_mask(piece.keys, use_relative)) = piece.keys

\* The chords the rows give before the reduction.
ChordsList ==
    LET ilocs == ChordIlocs(chords_df)
    IN  [i \in 1..Len(ilocs) |-> ChordFromSeries(chords_df[ilocs[i] + 1], opts.use_inversions)]

\* The rows of the chords that the reduction keeps.
KeptChordRows ==
    LET ilocs == ApplyMask(ChordIlocs(chords_df),
                           get_reduction_mask(ChordsList, opts.use_inversions))
    IN  [i \in 1..Len(ilocs) |-> chords_df[ilocs[i] + 1]]

\* A piece in which rows were merged into a chord and in which the key
\* columns change at a chord whose key repeats the key before it.
C5_Witness ==
    /\ BuiltFromDataFrames
    /\ NumChords >= 2
    /\ NumChords < Len(ChordsList)
    /\ Len(piece.keys) < Len(TruePositions(KeyColChanges(KeptChordRows), 1))

\* The runs of rows that repeat one another: a run begins at a row that
\* does not repeat the row before it and ends before the next such row.
BeginsRun(cs, i) == i = 1 \/ ~ChordIsRepeated(cs[i], cs[i - 1], opts.use_inversions)
RunStarts(cs) == {i \in 1..Len(cs) : BeginsRun(cs, i)}
RunEnd(cs, i) ==
    LET later == {j \in RunStarts(cs) : j > i}
    IN  IF later = {} THEN Len(cs) ELSE Smallest(later) - 1

RECURSIVE TotalDuration(_, _, _)
TotalDuration(cs, i, j) == IF i > j THEN 0 ELSE cs[i].duration + TotalDuration(cs, i + 1, j)

\* The number of runs that begin at or before row i.
RunsUpTo(cs, i) == Cardinality({k \in RunStarts(cs) : k <= i})

\* C6: every run of adjacent repeated chord rows leaves exactly one chord;
\* it has the first row's onset, root, type and inversion, the last row's
\* offset and the run's total duration; a row outside any such run gives
\* its chord unchanged.
C6_RunsMerged ==
    BuiltFromDataFrames =>
        LET cs == ChordsList
        IN  /\ NumChords = Cardinality(RunStarts(cs))
            /\ \A i \in RunStarts(cs) :
                  LET survivor == piece.chords[RunsUpTo(cs, i)]
                      last == RunEnd(cs, i)
                  IN  /\ survivor.onset = cs[i].onset
                      /\ survivor.root = cs[i].root
                      /\ survivor.chord_type = cs[i].chord_type
                      /\ survivor.inversion = cs[i].inversion
                      /\ survivor.offset = cs[last].offset
                      /\ survivor.duration = TotalDuration(cs, i, last)
                      /\ last = i => survivor = cs[i]

\* Row A from 0 to 2 and row B from 2 to 5 with the same label, merged into
\* one chord from 0 to 5 of duration 5, and a third chord left as it was.
C6_Witness ==
    /\ BuiltFromDataFrames
    /\ Len(ChordsList) = 3
    /\ ChordsList[1].onset = 0 /\ ChordsList[1].offset = 2
    /\ ChordsList[2].onset = 2 /\ ChordsList[2].offset = 5
    /\ NumChords = 2
    /\ piece.chords[1].onset = 0 /\ piece.chords[1].offset = 5 /\ piece.chords[1].duration = 5
    /\ piece.chords[2] = ChordsList[3]

-----------------------------------------------------------------------------
(* Properties of get_chord_note_input. *)

InputReturned == pc = "returned" /\ args.fn = "get_chord_note_input"

\* The index of the note that row k (0-based) of the result stands for.
NoteIndexOfRow(k) == args.onset_index - args.window + k

\* C7: the result has (offset_index - onset_index) + 2 * window rows; row k
\* is the vector of note onset_index - window + k when there is such a note
\* and a row of zeros otherwise; with window 0 on the range [3, 7) of a piece
\* of 10 notes it has exactly 4 rows, none of them zero.
C7_RowsOfTheWindow ==
    InputReturned =>
        /\ Len(ret) = (args.offset_index - args.onset_index) + 2 * args.window
        /\ \A k \in 0..(Len(ret) - 1) :
              IF 0 <= NoteIndexOfRow(k) /\ NoteIndexOfRow(k) < Len(args.notes)
              THEN ~ret[k + 1].zero /\ ret[k + 1].note = args.notes[NoteIndexOfRow(k) + 1]
              ELSE ret[k + 1].zero
        /\ (/\ Len(args.notes) = 10 /\ args.window = 0
            /\ args.onset_index = 3 /\ args.offset_index = 7)
              => (Len(ret) = 4 /\ \A k \in 1..4 : ~ret[k].zero)

\* The call with window 0 on the range [3, 7) of a piece of 10 notes.
C7_Witness ==
    /\ InputReturned
    /\ Len(args.notes) = 10 /\ args.window = 0
    /\ args.onset_index = 3 /\ args.offset_index = 7
    /\ Len(ret) = 4

TenNotesWindowFive ==
    /\ InputReturned
    /\ Len(args.notes) = 10 /\ args.window = 5
    /\ args.onset_index = 3 /\ args.offset_index = 7

\* C8, as stated: with window 5 on the range [3, 7) of a piece of 10 notes
\* the result has 10 rows, of which rows 0, 1 and 9 are the rows of zeros.
C8_AsStated ==
    TenNotesWindowFive =>
        /\ Len(ret) = 10
        /\ \A k \in 0..(Len(ret) - 1) : ret[k + 1].zero <=> k \in {0, 1, 9}

\* C8, amended: with window 5 on the range [3, 7) of a piece of 10 notes the
\* result has 14 rows, of which rows 0, 1, 12 and 13 (those that fall
\* outside the notes) are the rows of zeros.
C8_FourteenRows ==
    TenNotesWindowFive =>
        /\ Len(ret) = 14
        /\ \A k \in 0..(Len(ret) - 1) : ret[k + 1].zero <=> k \in {0, 1, 12, 13}

\* The call with window 5 on the range [3, 7) of a piece of 10 notes.
C8_Witness == TenNotesWindowFive /\ Len(ret) > 0

\* The note indices inside the window and inside the piece.
InWindow ==
    {i \in 0..(Len(args.notes) - 1) :
        /\ Max(args.onset_index - args.window, 0) <= i
        /\ i < Min(args.offset_index + args.window, Len(args.notes))}

WindowPitches == {PitchOf(args.notes[i + 1]) : i \in InWindow}

\* C9: the min_pitch and max_pitch of every vector are the smallest and the
\* largest (octave, midi number) among the notes with an index in
\* [max(onset_index - window, 0), min(offset_index + window, len(notes))).
C9_PitchRangeOfTheWindow ==
    InputReturned =>
        \A k \in 1..Len(ret) :
            ~ret[k].zero =>
                /\ ret[k].min_pitch \in WindowPitches
                /\ ret[k].max_pitch \in WindowPitches
                /\ \A p \in WindowPitches :
                      ~PitchLess(p, ret[k].min_pitch) /\ ~PitchLess(ret[k].max_pitch, p)

\* A call on a piece whose highest note lies outside the window, with rows
\* of zeros on one side.
C9_Witness ==
    /\ InputReturned
    /\ \E k \in 1..Len(ret) : ret[k].zero
    /\ \E i \in 0..(Len(args.notes) - 1) :
          /\ i \notin InWindow
          /\ \A p \in WindowPitches : PitchLess(p, PitchOf(args.notes[i + 1]))

-----------------------------------------------------------------------------
(* Properties of the dictionary form. *)

Loaded == pc = "loaded"

-----------------------------------------------------------------------------
(* The read operations of a constructed piece. *)

\* bisect.bisect_left(a, x, lo, hi): the binary search of the standard
\* library over a[lo:hi].
RECURSIVE BisectLoop(_, _, _, _)
BisectLoop(a, x, lo, hi) ==
    IF lo < hi
    THEN LET mid == (lo + hi) \div 2
         IN  IF a[mid + 1] < x THEN BisectLoop(a, x, mid + 1, hi)
             ELSE BisectLoop(a, x, lo, mid)
    ELSE lo

bisect_left(a, x, lo) == BisectLoop(a, x, lo, Len(a))

\* xs[from:to] of Python: a negative bound counts from the end, and a bound
\* past an end is that end.
SliceBound(i, n) == IF i < 0 THEN Max(n + i, 0) ELSE Min(i, n)
Slice(xs, from, to) == SubSeq(xs, SliceBound(from, Len(xs)) + 1, SliceBound(to, Len(xs)))

\* The range query without its check of the bounds.
get_chords_within_range_unchecked(p, start, stop) ==
    LET chord_change_indices == p.chord_changes
        found == bisect_left(chord_change_indices, start, 0)
        start_index ==
            IF found = Len(chord_change_indices) \/ chord_change_indices[found + 1] # start
            THEN found - 1
            ELSE found
    IN  IF stop.none
        THEN [raised |-> "no", chords |-> Slice(p.chords, start_index, Len(p.chords))]
        ELSE [raised |-> "no",
              chords |-> Slice(p.chords, start_index,
                               bisect_left(chord_change_indices, stop.val, Max(start_index, 0)))]

\* Piece.get_chords_within_range(start, stop)
get_chords_within_range(p, start, stop) ==
    IF ~(stop.none \/ stop.val >= start)
    THEN [raised |-> "AssertionError", chords |-> <<>>]
    ELSE LET chord_change_indices == p.chord_changes
             found == bisect_left(chord_change_indices, start, 0)
             start_index ==
                 IF found = Len(chord_change_indices) \/ chord_change_indices[found + 1] # start
                 THEN found - 1
                 ELSE found
         IN  IF stop.none
             THEN [raised |-> "no", chords |-> Slice(p.chords, start_index, Len(p.chords))]
             ELSE [raised |-> "no",
                   chords |-> Slice(p.chords, start_index,
                                    bisect_left(chord_change_indices, stop.val,
                                                Max(start_index, 0)))]

\* Piece.get_key_change_input_indices
get_key_change_input_indices(p) ==
    [i \in 1..Len(p.key_changes) |-> p.chord_changes[p.key_changes[i] + 1]]

\* The input of chord i (1-based) in ScorePiece.get_chord_note_inputs called
\* without ranges and change indices.
ChordNoteInputOf(p, duration_cache, window, i) ==
    LET onset_index  == p.chord_ranges[i][1]
        offset_index == p.chord_ranges[i][2]
        change_index == p.chord_changes[i]
        chord == p.chords[i]
        last_offset == p.chords[Len(p.chords)].offset
    IN  get_chord_note_input(
            [notes |-> p.notes,
             chord_onset |-> p.notes[change_index + 1].onset,
             chord_offset |-> IF offset_index < Len(p.notes)
                              THEN p.notes[offset_index + 1].onset
                              ELSE last_offset,
             chord_duration |-> chord.duration,
             change_index |-> change_index,
             onset_index |-> onset_index,
             offset_index |-> offset_index,
             window |-> window,
             duration_cache |-> Some(duration_cache),
             chord |-> Some(chord)])

\* ScorePiece.get_chord_note_inputs(window): self is the piece after the
\* call; the call raises when the input of one of the chords does.
get_chord_note_inputs(p, window) ==
    LET cached == get_duration_cache(p)
        inputs == [i \in 1..Len(p.chord_ranges) |-> ChordNoteInputOf(p, cached.ret, window, i)]
    IN  [self |-> cached.self,
         ret |-> IF \E i \in 1..Len(inputs) : inputs[i].raised
                 THEN [raised |-> TRUE, inputs |-> <<>>]
                 ELSE [raised |-> FALSE, inputs |-> [i \in 1..Len(inputs) |-> inputs[i].rows]]]

\* piece.get_inputs()
GetInputs ==
    /\ pc = "built"
    /\ args' = [fn |-> "get_inputs"]
    /\ ret' = piece.notes
    /\ UNCHANGED <<notes_df, chords_df, opts, pc, piece>>

\* piece.get_chords()
GetChords ==
    /\ pc = "built"
    /\ args' = [fn |-> "get_chords"]
    /\ ret' = piece.chords
    /\ UNCHANGED <<notes_df, chords_df, opts, pc, piece>>

\* piece.get_keys()
GetKeys ==
    /\ pc = "built"
    /\ args' = [fn |-> "get_keys"]
    /\ ret' = piece.keys
    /\ UNCHANGED <<notes_df, chords_df, opts, pc, piece>>

\* piece.get_chord_change_indices()
GetChordChangeIndices ==
    /\ pc = "built"
    /\ args' = [fn |-> "get_chord_change_indices"]
    /\ ret' = piece.chord_changes
    /\ UNCHANGED <<notes_df, chords_df, opts, pc, piece>>

\* piece.get_chord_ranges()
GetChordRangesOfPiece ==
    /\ pc = "built"
    /\ args' = [fn |-> "get_chord_ranges"]
    /\ ret' = piece.chord_ranges
    /\ UNCHANGED <<notes_df, chords_df, opts, pc, piece>>

\* piece.get_key_change_indices()
GetKeyChangeIndices ==
    /\ pc = "built"
    /\ args' = [fn |-> "get_key_change_indices"]
    /\ ret' = piece.key_changes
    /\ UNCHANGED <<notes_df, chords_df, opts, pc, piece>>

\* piece.get_key_change_input_indices()
GetKeyChangeInputIndices ==
    /\ pc = "built"
    /\ args' = [fn |-> "get_key_change_input_indices"]
    /\ ret' = get_key_change_input_indices(piece)
    /\ UNCHANGED <<notes_df, chords_df, opts, pc, piece>>

\* The stops of a range from start in a piece of n notes: none, the note
\* before start, start itself, and the end of the piece.
RangeStops(start, n) == {None} \cup {Some(k) : k \in {start - 1, start, n} \cap 0..n}

\* piece.get_chords_within_range(start, stop)
GetChordsWithinRange ==
    /\ pc = "built"
    /\ \E start \in 0..Len(piece.notes) : \E stop \in RangeStops(start, Len(piece.notes)) :
          /\ args' = [fn |-> "get_chords_within_range", start |-> start, stop |-> stop]
          /\ ret' = get_chords_within_range(piece, start, stop)
    /\ UNCHANGED <<notes_df, chords_df, opts, pc, piece>>

\* piece.get_chord_note_inputs(window)
GetChordNoteInputs ==
    /\ pc = "built"
    /\ \E window \in {0, 2} :
          /\ args' = [fn |-> "get_chord_note_inputs", window |-> window]
          /\ piece' = get_chord_note_inputs(piece, window).self
          /\ ret' = get_chord_note_inputs(piece, window).ret
    /\ UNCHANGED <<notes_df, chords_df, opts, pc>>

\* piece.to_dict(), the piece staying in use.
ReadToDict ==
    /\ pc = "built"
    /\ args' = [fn |-> "to_dict"]
    /\ ret' = to_dict(piece)
    /\ UNCHANGED <<notes_df, chords_df, opts, pc, piece>>

\* The rows of the pieces that are read: notes that may begin after the last
\* label has ended, and labels whose key may change at the last position.
ReadNoteRows == {NoteRow(t, t + 1, 0, 60) : t \in 0..(MaxTime + 1)}

ReadChordRows ==
    {ChordRow(t, t + 1, t % 2, 0, lk, "NA") :
        t \in Times, lk \in {"I", "V"}} \ {ChordRow(t, t + 1, t % 2, 0, "V", "NA") : t \in 0..(MaxTime - 1)}

InitRead ==
    /\ notes_df \in NoteFrames(ReadNoteRows, 1, MaxNotes)
    /\ chords_df \in ChordFrames(ReadChordRows, 2, MaxChords)
    /\ opts = [use_inversions |-> TRUE, use_relative |-> TRUE]
    /\ pc = "start"
    /\ piece = NoPiece
    /\ args = NoArgs
    /\ ret = <<>>

NextRead ==
    \/ FromDataFrames
    \/ FromMusicXml
    \/ GetInputs
    \/ GetChords
    \/ GetKeys
    \/ GetChordChangeIndices
    \/ GetChordRangesOfPiece
    \/ GetKeyChangeIndices
    \/ GetKeyChangeInputIndices
    \/ GetChordsWithinRange
    \/ GetChordNoteInputs
    \/ GetDurationCache
    \/ ReadToDict

SpecRead == InitRead /\ [][NextRead]_vars

-----------------------------------------------------------------------------
(* Properties of the read operations. *)

Called(fn) == pc = "built" /\ args.fn = fn

NotesInOnsetOrder(p) ==
    \A i \in 1..(Len(p.notes) - 1) : p.notes[i].onset <= p.notes[i + 1].onset

LastChordEndsAfterLastNoteBegins(p) ==
    p.chords[Len(p.chords)].offset >= p.notes[Len(p.notes)].onset

\* C11: get_duration_cache returns one entry per note; the entry of a note
\* but the last is the distance from its onset to the onset of the next
\* note, and the entry of the last note the distance from its onset to the
\* offset of the last chord; no entry is negative when the notes are in
\* onset order and the last chord ends no earlier than the last note begins.
C11_DurationCache ==
    Called("get_duration_cache") =>
        /\ Len(ret) = NumNotes
        /\ \A i \in 1..(NumNotes - 1) :
              ret[i] = piece.notes[i + 1].onset - piece.notes[i].onset
        /\ NumNotes > 0 =>
              ret[NumNotes] = piece.chords[NumChords].offset - piece.notes[NumNotes].onset
        /\ (NotesInOnsetOrder(piece) /\ LastChordEndsAfterLastNoteBegins(piece)) =>
              \A i \in 1..NumNotes : ret[i] >= 0

\* A call on a piece of three notes in onset order, two of them beginning
\* together, whose last chord ends after the last note has begun.
C11_Witness ==
    /\ Called("get_duration_cache")
    /\ NumNotes = 3
    /\ LastChordEndsAfterLastNoteBegins(piece)
    /\ \E i \in 1..2 : ret[i] = 0
    /\ ret[3] > 0

\* C12: a read operation leaves notes, chords, keys, chord_changes,
\* chord_ranges and key_changes as they are; duration_cache changes only
\* from unset to the computed list, and every call of get_duration_cache
\* returns the list that is kept.
C12_ReadOnly ==
    [][(pc = "built" /\ pc' = "built") =>
          /\ piece'.notes = piece.notes
          /\ piece'.chords = piece.chords
          /\ piece'.keys = piece.keys
          /\ piece'.chord_changes = piece.chord_changes
          /\ piece'.chord_ranges = piece.chord_ranges
          /\ piece'.key_changes = piece.key_changes
          /\ piece.duration_cache.set => piece'.duration_cache = piece.duration_cache
          /\ piece'.duration_cache # piece.duration_cache =>
                piece'.duration_cache = [set |-> TRUE, val |-> ComputeDurationCache(piece)]
          /\ args'.fn = "get_duration_cache" =>
                (piece'.duration_cache.set /\ ret' = piece'.duration_cache.val)]_vars

\* A range query on a piece after its duration cache was computed.
C12_Witness ==
    /\ Called("get_chords_within_range")
    /\ piece.duration_cache.set
    /\ Len(piece.keys) >= 2
    /\ ret.raised = "no" /\ Len(ret.chords) >= 2

\* C19: get_chords_within_range called with a stop that is not None and is
\* smaller than start fails with an assertion error and returns no chords.
C19_StopBeforeStartFails ==
    (/\ Called("get_chords_within_range")
     /\ ~args.stop.none
     /\ args.stop.val < args.start) =>
        (ret.raised = "AssertionError" /\ ret.chords = <<>>)

\* A failed call with a stop before its start, on a piece in which a chord
\* changes between the two.
C19_Witness ==
    /\ Called("get_chords_within_range")
    /\ ~args.stop.none
    /\ args.stop.val < args.start
    /\ ret.raised = "AssertionError"
    /\ \E i \in 1..NumChords :
          args.stop.val <= piece.chord_changes[i] /\ piece.chord_changes[i] < args.start

-----------------------------------------------------------------------------
(* eval_utils.evaluate_features: the accuracy of a table of results. *)

MaxRows == 3         \* rows of a table of results

\* What a call returns: a value, or the exception it raised, and the
\* warnings it logged.
Returned(value, warnings) == [raised |-> "no", value |-> value, warnings |-> warnings]
Raised(exception) == [raised |-> exception, value |-> 0, warnings |-> <<>>]

\* A number kept as the quotient of two integers.
Quotient(num, den) == [num |-> num, den |-> den]

\* filter=None
NoFilter == [none |-> TRUE, val |-> <<>>]

\* results_df.loc[filter]
FilteredRows(results_df, filter) ==
    IF filter.none THEN results_df ELSE ApplyMask(results_df, filter.val)

\* correct_mask &= results_df["gt_" + feature] == results_df["est_" + feature],
\* for the features from the i-th on.
RECURSIVE CorrectMaskLoop(_, _, _, _)
CorrectMaskLoop(results_df, features, i, correct_mask) ==
    IF i > Len(features) THEN correct_mask
    ELSE CorrectMaskLoop(results_df, features, i + 1,
             [k \in 1..Len(results_df) |->
                 correct_mask[k] /\ results_df[k].gt[features[i]] = results_df[k].est[features[i]]])

\* The sum of weights[k] over the rows k from i on where mask[k] is true.
RECURSIVE WeightedSum(_, _, _)
WeightedSum(mask, weights, i) ==
    IF i > Len(weights) THEN 0
    ELSE (IF mask[i] THEN weights[i] ELSE 0) + WeightedSum(mask, weights, i + 1)

\* np.average(a, weights): the weighted sum over the sum of the weights.
np_average(mask, weights) ==
    LET scl == WeightedSum([k \in 1..Len(weights) |-> TRUE], weights, 1)
    IN  IF scl = 0 THEN Raised("ZeroDivisionError")
        ELSE Returned(Quotient(WeightedSum(mask, weights, 1), scl), <<>>)

\* The accuracy counted in rows instead of in durations.
evaluate_features_by_rows(results_df, features, filter) ==
    LET rows == FilteredRows(results_df, filter)
        correct_mask == CorrectMaskLoop(rows, features, 1, [k \in 1..Len(rows) |-> TRUE])
    IN  IF Len(rows) = 0
        THEN Returned(Quotient(0, 1), <<"Filter contains nothing to evaluate. Returning 0.">>)
        ELSE np_average(correct_mask, [k \in 1..Len(rows) |-> 1])

\* The accuracy computed without looking for an empty table first.
evaluate_features_unguarded(results_df, features, filter) ==
    LET rows == FilteredRows(results_df, filter)
        correct_mask == CorrectMaskLoop(rows, features, 1, [k \in 1..Len(rows) |-> TRUE])
    IN  np_average(correct_mask, [k \in 1..Len(rows) |-> rows[k].duration])

\* evaluate_features(results_df, features, filter)
evaluate_features(results_df, features, filter) ==
    LET rows == FilteredRows(results_df, filter)
        correct_mask == CorrectMaskLoop(rows, features, 1, [k \in 1..Len(rows) |-> TRUE])
    IN  IF Len(rows) = 0
        THEN Returned(Quotient(0, 1), <<"Filter contains nothing to evaluate. Returning 0.">>)
        ELSE np_average(correct_mask, [k \in 1..Len(rows) |-> rows[k].duration])

\* The rows of a table of results: the root and the type of the ground
\* truth and of the estimate, and the duration of the note, which
\* get_results_df never leaves at zero.
RowDurations == {1, 2}

ResultRows ==
    {[gt |-> [root |-> 0, chord_type |-> "M"],
      est |-> [root |-> r, chord_type |-> t],
      duration |-> d] : r \in {0, 1}, t \in {"M", "m"}, d \in RowDurations}

FeatureLists == {<<>>, <<"root">>, <<"chord_type">>, <<"root", "chord_type">>}

InitEvaluate ==
    /\ notes_df = <<>>
    /\ chords_df = <<>>
    /\ opts = [use_inversions |-> TRUE, use_relative |-> TRUE]
    /\ pc = "call"
    /\ piece = NoPiece
    /\ \E results_df \in SeqsUpTo(ResultRows, 0, MaxRows), features \in FeatureLists :
          \E filter \in {NoFilter} \cup {Some(m) : m \in [1..Len(results_df) -> BOOLEAN]} :
              args = [fn |-> "evaluate_features", results_df |-> results_df,
                      features |-> features, filter |-> filter]
    /\ ret = <<>>

\* evaluate_features(results_df, features, filter)
CallEvaluateFeatures ==
    /\ pc = "call"
    /\ args.fn = "evaluate_features"
    /\ pc' = "returned"
    /\ ret' = evaluate_features(args.results_df, args.features, args.filter)
    /\ UNCHANGED <<notes_df, chords_df, opts, piece, args>>

NextEvaluate == CallEvaluateFeatures

SpecEvaluate == InitEvaluate /\ [][NextEvaluate]_vars

-----------------------------------------------------------------------------
(* Properties of evaluate_features. *)

Evaluated == pc = "returned" /\ args.fn = "evaluate_features"

\* The rows that are evaluated, and among them the rows in which ground
\* truth and estimate agree in every requested feature.
EvaluatedRows == FilteredRows(args.results_df, args.filter)

Matches(row) == \A i \in 1..Len(args.features) : row.gt[args.features[i]] = row.est[args.features[i]]

RECURSIVE DurationOfRows(_, _)
DurationOfRows(rows, ks) ==
    IF ks = {} THEN 0
    ELSE LET k == CHOOSE x \in ks : TRUE
         IN  rows[k].duration + DurationOfRows(rows, ks \ {k})

MatchingRows == {k \in 1..Len(EvaluatedRows) : Matches(EvaluatedRows[k])}

C14_EmptyGivesZero ==
    (Evaluated /\ Len(EvaluatedRows) = 0) =>
        /\ ret.raised = "no"
        /\ ret.value.num = 0
        /\ Len(ret.warnings) = 1

\* A call whose filter leaves none of the rows of the table.
C14_Witness ==
    /\ Evaluated
    /\ Len(args.results_df) >= 2
    /\ ~args.filter.none
    /\ Len(EvaluatedRows) = 0
    /\ Len(args.features) >= 1
    /\ ret.raised = "no"

-----------------------------------------------------------------------------
(* Pitches, chord types and one-hot indexes.  harmonic_utils and           *)
(* data_types are not part of the sources at hand; the operators below     *)
(* follow the specification's index schemes, over the few chord types,     *)
(* inversions and pitches that the pieces of the model use.                *)

ChordTypes == <<"M", "m", "Mm7">>
KeyModes == <<"major", "minor">>
NumInversions == 2

\* TRIAD_REDUCTION: the triad of a chord type.
TRIAD_REDUCTION(chord_type) == IF chord_type = "Mm7" THEN "M" ELSE chord_type

IndexIn(xs, x) == (CHOOSE i \in 1..Len(xs) : xs[i] = x) - 1

\* The number of pitches of a pitch type: the twelve pitch classes, or the
\* stretch of the line of fifths that the model uses.
NumPitches(pitch_type) == IF pitch_type = "MIDI" THEN 12 ELSE 3

\* A pitch of the line of fifths (counted from C) in another pitch type: a
\* step on the line of fifths is seven semitones.
ConvertPitch(pitch, pitch_type) == IF pitch_type = "MIDI" THEN (7 * pitch) % 12 ELSE pitch

\* Chord.to_pitch_type and Key.to_pitch_type
ChordToPitchType(chord, pitch_type) ==
    [chord EXCEPT !.root = ConvertPitch(chord.root, pitch_type)]

KeyToPitchType(key, pitch_type) ==
    [key EXCEPT !.relative_tonic = ConvertPitch(key.relative_tonic, pitch_type),
                !.local_tonic = ConvertPitch(key.local_tonic, pitch_type)]

\* hu.get_chord_one_hot_index and hu.get_chord_from_one_hot_index
get_chord_one_hot_index(chord_type, root, inversion) ==
    root * Len(ChordTypes) * NumInversions + IndexIn(ChordTypes, chord_type) * NumInversions
        + inversion

\* The decoding of a chord index laid out with the inversion before the
\* chord type.
get_chord_from_one_hot_index_by_inversion(index) ==
    [root |-> index \div (Len(ChordTypes) * NumInversions),
     chord_type |-> ChordTypes[(index % Len(ChordTypes)) + 1],
     inversion |-> (index \div Len(ChordTypes)) % NumInversions]

get_chord_from_one_hot_index(index) ==
    [root |-> index \div (Len(ChordTypes) * NumInversions),
     chord_type |-> ChordTypes[((index \div NumInversions) % Len(ChordTypes)) + 1],
     inversion |-> index % NumInversions]

\* hu.get_key_one_hot_index and hu.get_key_from_one_hot_index
get_key_one_hot_index(mode, tonic) == tonic * Len(KeyModes) + IndexIn(KeyModes, mode)

get_key_from_one_hot_index(index) ==
    [tonic |-> index \div Len(KeyModes), mode |-> KeyModes[(index % Len(KeyModes)) + 1]]

-----------------------------------------------------------------------------
(* eval_utils.get_results_df: the table of results of an estimate.  The    *)
(* estimate is a State of the search, which is not part of the sources at  *)
(* hand: it gives its chords and keys as one-hot indexes with the note     *)
(* indexes at which they begin and end.  The columns of the chords'        *)
(* altered pitches (pitches, is_default) are left out.                     *)

\* array[from:to] = value
AssignSlice(array, from, to, value) ==
    LET n == Len(array)
        first == SliceBound(from, n)
        last == SliceBound(to, n)
    IN  [k \in 1..n |-> IF first <= k - 1 /\ k - 1 < last THEN value ELSE array[k]]

\* for label, start, end in zip(labels, starts, ends): array[start:end] = label
RECURSIVE BroadcastLoop(_, _, _, _, _)
BroadcastLoop(array, labels, starts, ends, i) ==
    IF i > Len(labels) \/ i > Len(starts) \/ i > Len(ends) THEN array
    ELSE BroadcastLoop(AssignSlice(array, starts[i], ends[i], labels[i]),
                       labels, starts, ends, i + 1)

\* The arrays of the ground truth: every label from its change to the next
\* change, and the last label from the last change on.
GroundTruthArray(zeros, labels, changes) ==
    AssignSlice(BroadcastLoop(zeros, labels, changes, Tail(changes), 1),
                changes[Len(changes)], Len(zeros), labels[Len(labels)])

\* The arrays of the estimate: every label from changes[i] to changes[i + 1].
EstimateArray(zeros, labels, changes) ==
    BroadcastLoop(zeros, labels, SubSeq(changes, 1, Len(changes) - 1), Tail(changes), 1)

\* The 0 that np.zeros(dtype=object) holds where no chord type or mode was
\* written.
ZeroObject == "0"

ZeroChord == [label |-> 0, root |-> 0, chord_type |-> ZeroObject, triad |-> ZeroObject, inversion |-> 0]
ZeroKey == [label |-> 0, tonic |-> 0, mode |-> ZeroObject]

\* What the arrays of the ground truth hold for a chord and for a key.
GtChordFields(chord, chord_root_type) ==
    LET c == ChordToPitchType(chord, chord_root_type)
    IN  [label |-> get_chord_one_hot_index(c.chord_type, c.root, c.inversion),
         root |-> c.root, chord_type |-> c.chord_type,
         triad |-> TRIAD_REDUCTION(c.chord_type), inversion |-> c.inversion]

GtKeyFields(key, key_tonic_type) ==
    LET k == KeyToPitchType(key, key_tonic_type)
    IN  [label |-> get_key_one_hot_index(k.relative_mode, k.relative_tonic),
         tonic |-> k.relative_tonic, mode |-> k.relative_mode]

\* What the arrays of the estimate hold for a one-hot index.
EstChordFields(index, chord_root_type) ==
    LET c == get_chord_from_one_hot_index(index)
        root == ConvertPitch(c.root, chord_root_type)
    IN  [label |-> get_chord_one_hot_index(c.chord_type, root, c.inversion),
         root |-> root, chord_type |-> c.chord_type,
         triad |-> TRIAD_REDUCTION(c.chord_type), inversion |-> c.inversion]

EstKeyFields(index, key_tonic_type) ==
    LET k == get_key_from_one_hot_index(index)
        tonic == ConvertPitch(k.tonic, key_tonic_type)
    IN  [label |-> get_key_one_hot_index(k.mode, tonic), tonic |-> tonic, mode |-> k.mode]

Zeros(n, zero) == [k \in 1..n |-> zero]

\* The four arrays of get_results_df, one entry per note.
GtChordArray(p, chord_root_type) ==
    GroundTruthArray(Zeros(Len(p.notes), ZeroChord),
                     [i \in 1..Len(p.chords) |-> GtChordFields(p.chords[i], chord_root_type)],
                     p.chord_changes)

EstChordArray(p, state, chord_root_type) ==
    EstimateArray(Zeros(Len(p.notes), ZeroChord),
                  [i \in 1..Len(state.chords) |-> EstChordFields(state.chords[i], chord_root_type)],
                  state.chord_changes)

GtKeyArray(p, key_tonic_type) ==
    GroundTruthArray(Zeros(Len(p.notes), ZeroKey),
                     [i \in 1..Len(p.keys) |-> GtKeyFields(p.keys[i], key_tonic_type)],
                     get_key_change_input_indices(p))

EstKeyArray(p, state, key_tonic_type) ==
    EstimateArray(Zeros(Len(p.notes), ZeroKey),
                  [i \in 1..Len(state.keys) |-> EstKeyFields(state.keys[i], key_tonic_type)],
                  state.key_changes)

\* The rows of the table with a row for every note, of whatever duration.
RECURSIVE ResultsLoopKeepingAll(_, _, _, _, _, _)
ResultsLoopKeepingAll(durations, gt_chords, est_chords, gt_keys, est_keys, n) ==
    IF n > Len(durations) THEN <<>>
    ELSE <<[gt_chord |-> gt_chords[n], est_chord |-> est_chords[n],
            gt_key |-> gt_keys[n], est_key |-> est_keys[n], duration |-> durations[n]]>>
         \o ResultsLoopKeepingAll(durations, gt_chords, est_chords, gt_keys, est_keys, n + 1)

\* The loop over the notes: a row for every note but those of duration 0.
RECURSIVE ResultsLoop(_, _, _, _, _, _)
ResultsLoop(durations, gt_chords, est_chords, gt_keys, est_keys, n) ==
    IF n > Len(durations) THEN <<>>
    ELSE IF durations[n] = 0
         THEN ResultsLoop(durations, gt_chords, est_chords, gt_keys, est_keys, n + 1)
         ELSE <<[gt_chord |-> gt_chords[n], est_chord |-> est_chords[n],
                 gt_key |-> gt_keys[n], est_key |-> est_keys[n], duration |-> durations[n]]>>
              \o ResultsLoop(durations, gt_chords, est_chords, gt_keys, est_keys, n + 1)

\* get_results_df(piece, state, ...): self is the piece after the call (its
\* duration cache is asked for) and ret the rows of the table.
get_results_df(p, state, chord_root_type, key_tonic_type) ==
    LET durations == get_duration_cache(p)
    IN  [self |-> durations.self,
         ret |-> ResultsLoop(durations.ret,
                             GtChordArray(p, chord_root_type),
                             EstChordArray(p, state, chord_root_type),
                             GtKeyArray(p, key_tonic_type),
                             EstKeyArray(p, state, key_tonic_type), 1)]

\* The estimates of a piece of n notes: chords and keys that cover the notes
\* from the first to the last, in one segment or in two.
Segmentations(n) == {<<0, n>>} \cup {<<0, k, n>> : k \in 1..(n - 1)}

EstimatedChords == {get_chord_one_hot_index(t, r, 0) : t \in {"M", "Mm7"}, r \in {0, 1}}
EstimatedKeys == {get_key_one_hot_index(m, 0) : m \in {"major", "minor"}}

EstimateStates(n) ==
    {[chords |-> chords, chord_changes |-> changes, keys |-> <<key>>, key_changes |-> <<0, n>>] :
        changes \in Segmentations(n), chords \in SeqsUpTo(EstimatedChords, 1, 2),
        key \in EstimatedKeys}
    \cup
    {[chords |-> <<chord>>, chord_changes |-> <<0, n>>, keys |-> keys, key_changes |-> changes] :
        changes \in Segmentations(n), keys \in SeqsUpTo(EstimatedKeys, 2, 2),
        chord \in {get_chord_one_hot_index("M", 0, 0)}}

WellFormedEstimate(state) ==
    /\ Len(state.chord_changes) = Len(state.chords) + 1
    /\ Len(state.key_changes) = Len(state.keys) + 1

\* get_results_df(piece, state, output_root_type, output_tonic_type,
\* chord_root_type, key_tonic_type)
CallGetResultsDf ==
    /\ pc = "built"
    /\ \E state \in {e \in EstimateStates(Len(piece.notes)) : WellFormedEstimate(e)},
          pitch_type \in {"TPC", "MIDI"} :
          LET results == get_results_df(piece, state, pitch_type, pitch_type)
          IN  /\ args' = [fn |-> "get_results_df", state |-> state,
                          chord_root_type |-> pitch_type, key_tonic_type |-> pitch_type]
              /\ piece' = results.self
              /\ ret' = results.ret
    /\ pc' = "evaluated"
    /\ UNCHANGED <<notes_df, chords_df, opts>>

\* The pieces of which results are taken: notes at the positions of the
\* score, and labels that follow one another without a gap up to the last
\* position, where the key may change.
ResultChordFrames ==
    {f \in ChordFrames(ReadChordRows, 2, MaxChords) :
        /\ f[Len(f)].onset = MaxTime
        /\ \A i \in 1..(Len(f) - 1) : f[i + 1].onset = f[i].onset + 1}

InitResults ==
    /\ notes_df \in NoteFrames(NoteRows, 1, MaxNotes)
    /\ chords_df \in ResultChordFrames
    /\ opts = [use_inversions |-> TRUE, use_relative |-> TRUE]
    /\ pc = "start"
    /\ piece = NoPiece
    /\ args = NoArgs
    /\ ret = <<>>

NextResults ==
    \/ FromDataFrames
    \/ FromMusicXml
    \/ CallGetResultsDf

SpecResults == InitResults /\ [][NextResults]_vars

-----------------------------------------------------------------------------
(* Properties of get_results_df. *)

GotResults == pc = "evaluated" /\ args.fn = "get_results_df"

\* The notes (0-based) whose entry of the duration cache is not 0, in order.
RECURSIVE NotesWithDuration(_, _)
NotesWithDuration(durations, n) ==
    IF n > Len(durations) THEN <<>>
    ELSE (IF durations[n] # 0 THEN <<n - 1>> ELSE <<>>) \o NotesWithDuration(durations, n + 1)

\* C15: the table has exactly one row for every note whose entry of the
\* duration cache is not 0, in the order of the notes, with that duration
\* and the labels of that note, and no row for a note of duration 0.
C15_RowsOfNotesWithDuration ==
    GotResults =>
        LET durations == piece.duration_cache.val
            kept == NotesWithDuration(durations, 1)
        IN  /\ piece.duration_cache.set
            /\ Len(ret) = Len(kept)
            /\ \A k \in 1..Len(ret) :
                  /\ ret[k].duration = durations[kept[k] + 1]
                  /\ ret[k].duration # 0
                  /\ ret[k].gt_chord = GtChordArray(piece, args.chord_root_type)[kept[k] + 1]
                  /\ ret[k].est_chord =
                        EstChordArray(piece, args.state, args.chord_root_type)[kept[k] + 1]

\* A table of a piece of three notes of which one has the duration 0 and
\* is estimated differently from the note after it.
C15_Witness ==
    /\ GotResults
    /\ NumNotes = 3
    /\ Len(ret) = 2
    /\ piece.duration_cache.val[1] = 0
    /\ args.state.chord_changes = <<0, 1, 3>>
    /\ args.state.chords[1] # args.state.chords[2]
    /\ ret[1].est_chord.label = args.state.chords[2]

\* The segment (1-based) of changes that holds the note n, the last segment
\* reaching to the end of the notes; 0 when no segment holds it.
Covering(changes, n) ==
    LET holding == {i \in 1..Len(changes) :
                       /\ changes[i] <= n
                       /\ (i = Len(changes) \/ n < changes[i + 1])}
    IN  IF holding = {} THEN 0 ELSE CHOOSE i \in holding : TRUE

\* C16, as stated: every note has the fields of the chord and of the key of
\* the ground truth that cover it and of the segments of the estimate that
\* cover it, and no note keeps the value the arrays began with.
C16_AsStated ==
    GotResults =>
        \A n \in 0..(NumNotes - 1) :
            LET gt_chord == GtChordArray(piece, args.chord_root_type)[n + 1]
                gt_key == GtKeyArray(piece, args.key_tonic_type)[n + 1]
                est_chord == EstChordArray(piece, args.state, args.chord_root_type)[n + 1]
                est_key == EstKeyArray(piece, args.state, args.key_tonic_type)[n + 1]
                chord == Covering(piece.chord_changes, n)
                key == Covering(get_key_change_input_indices(piece), n)
                est_chord_segment == Covering(SubSeq(args.state.chord_changes, 1, Len(args.state.chords)), n)
                est_key_segment == Covering(SubSeq(args.state.key_changes, 1, Len(args.state.keys)), n)
            IN  /\ chord # 0 /\ gt_chord = GtChordFields(piece.chords[chord], args.chord_root_type)
                /\ key # 0 /\ gt_key = GtKeyFields(piece.keys[key], args.key_tonic_type)
                /\ est_chord = EstChordFields(args.state.chords[est_chord_segment], args.chord_root_type)
                /\ est_key = EstKeyFields(args.state.keys[est_key_segment], args.key_tonic_type)
                /\ gt_chord.chord_type # ZeroObject
                /\ gt_key.mode # ZeroObject
                /\ est_chord.chord_type # ZeroObject
                /\ est_key.mode # ZeroObject

\* A table with a row for a note that begins before the first chord of the
\* ground truth: the row holds the values the arrays began with.
C16_Witness ==
    /\ GotResults
    /\ piece.chord_changes[1] > 0
    /\ Len(ret) > 0
    /\ ret[1].gt_chord = ZeroChord
    /\ ret[1].gt_key = ZeroKey
    /\ ret[1].est_chord # ZeroChord

-----------------------------------------------------------------------------
(* eval_utils.get_results_annotation_df: the labels of an estimate,        *)
(* coloured by their agreement with the ground truth.  It is modelled for  *)
(* use_inversions=True, reduction=None and use_chord_pitches=False, with   *)
(* chord roots and key tonics on the line of fifths.                       *)

\* hu.get_key_label_list: the label of every key, a string.  The function
\* is not part of the sources at hand and the specification does not fix
\* the form of a label; a string is kept as the sequence of its characters,
\* in one of three forms: the name of the tonic in upper or lower case
\* ("C", "c"), name and mode ("CM", "Cm"), or name, colon and mode ("C:M").
KeyLabelForms == {"case", "pair", "colon"}

PitchNames == <<"C", "G", "D">>
LowerPitchNames == <<"c", "g", "d">>

KeyLabelString(index, form) ==
    LET key == get_key_from_one_hot_index(index)
        name == PitchNames[key.tonic + 1]
        mark == IF key.mode = "major" THEN "M" ELSE "m"
    IN  IF form = "case"
        THEN (IF key.mode = "major" THEN <<name>> ELSE <<LowerPitchNames[key.tonic + 1]>>)
        ELSE IF form = "pair" THEN <<name, mark>>
             ELSE <<name, ":", mark>>

\* xs[i] of Python for a list of n elements: the index counted from 0, a
\* negative one from the end.
ListIndex(i, n) == IF i < 0 THEN n + i ELSE i

NumChordLabels == NumPitches("TPC") * Len(ChordTypes) * NumInversions
NumKeyLabels == NumPitches("TPC") * Len(KeyModes)

\* A value of Python with its type, and == between two such values: values
\* of different types are not equal.
PyStr(v) == [type |-> "str", v |-> v]
PyInt(v) == [type |-> "int", v |-> v]
PyKeyMode(v) == [type |-> "KeyMode", v |-> v]
PyEq(a, b) == a.type = b.type /\ a.v = b.v

\* gt_tonic, gt_mode = key_label_list[gt_key_label]: the two characters of
\* the label; a label of another length cannot be unpacked.
UnpackKeyLabel(string) ==
    IF Len(string) = 2
    THEN [raised |-> "no", tonic |-> PyStr(string[1]), mode |-> PyStr(string[2])]
    ELSE [raised |-> "ValueError", tonic |-> PyStr(""), mode |-> PyStr("")]

\* est_tonic, est_mode = key_list[est_key_label]
UnpackKey(index) ==
    [tonic |-> PyInt(get_key_from_one_hot_index(index).tonic),
     mode |-> PyKeyMode(get_key_from_one_hot_index(index).mode)]

\* The colour of a key row.
KeyColor(gt_tonic, gt_mode, est_tonic, est_mode) ==
    IF PyEq(gt_tonic, est_tonic) /\ PyEq(gt_mode, est_mode) THEN "green"
    ELSE IF PyEq(gt_tonic, est_tonic) THEN "orange"
         ELSE "red"

\* The colour of a chord row with orange for any two chords of one root.
ChordColorByRootOnly(gt, est) ==
    IF gt.root = est.root /\ gt.chord_type = est.chord_type /\ gt.inversion = est.inversion
    THEN "green"
    ELSE IF gt.root = est.root THEN "orange"
         ELSE "red"

\* The colour of a chord row.
ChordColor(gt, est) ==
    IF gt.root = est.root /\ gt.chord_type = est.chord_type /\ gt.inversion = est.inversion
    THEN "green"
    ELSE IF /\ gt.root = est.root
            /\ TRIAD_REDUCTION(gt.chord_type) = TRIAD_REDUCTION(est.chord_type)
         THEN "orange"
         ELSE "red"

\* The label of a row: the string of the estimate, or "--" when the
\* estimate is the one of the row before.
Label(text) == [dashes |-> FALSE, text |-> text]
Dashes == [dashes |-> TRUE, text |-> <<>>]

\* The four strings of the note before; None before the first note.
NoString == [none |-> TRUE, val |-> <<>>]
NoStrings == [gt_chord |-> None, gt_key |-> NoString, est_chord |-> None, est_key |-> NoString]

\* The per-note arrays of labels of get_results_annotation_df.
AnnotationArrays(p, state) ==
    [gt_chord_labels |->
        IF Len(p.chords) > 0
        THEN GroundTruthArray(Zeros(Len(p.notes), 0 - 1),
                 [i \in 1..Len(p.chords) |-> GtChordFields(p.chords[i], "TPC").label],
                 p.chord_changes)
        ELSE Zeros(Len(p.notes), 0 - 1),
     estimated_chord_labels |-> EstimateArray(Zeros(Len(p.notes), 0), state.chords, state.chord_changes),
     gt_key_labels |->
        IF Len(p.keys) > 0
        THEN GroundTruthArray(Zeros(Len(p.notes), 0),
                 [i \in 1..Len(p.keys) |-> GtKeyFields(p.keys[i], "TPC").label],
                 get_key_change_input_indices(p))
        ELSE Zeros(Len(p.notes), 0 - 1),
     estimated_key_labels |-> EstimateArray(Zeros(Len(p.notes), 0), state.keys, state.key_changes)]

\* The loop over the notes, from note n (1-based) on; prev holds the strings
\* of the last note that was not skipped and rows the rows so far.  A row
\* keeps, beside its label, position and colour, its kind and the index of
\* its note, which the table of the code does not hold.
RECURSIVE AnnotationLoop(_, _, _, _, _, _, _)
AnnotationLoop(notes, durations, arrays, form, n, prev, rows) ==
    IF n > Len(notes) THEN [raised |-> "no", rows |-> rows]
    ELSE IF durations[n] = 0
    THEN AnnotationLoop(notes, durations, arrays, form, n + 1, prev, rows)
    ELSE
    LET gt_chord_label == arrays.gt_chord_labels[n]
        est_chord_label == arrays.estimated_chord_labels[n]
        gt_key_label == arrays.gt_key_labels[n]
        est_key_label == arrays.estimated_key_labels[n]
        gt_chord_string == ListIndex(gt_chord_label, NumChordLabels)
        gt_chord == get_chord_from_one_hot_index(ListIndex(gt_chord_label, NumChordLabels))
        gt_key_string == KeyLabelString(ListIndex(gt_key_label, NumKeyLabels), form)
        gt_key == UnpackKeyLabel(gt_key_string)
        est_chord_string == ListIndex(est_chord_label, NumChordLabels)
        est_chord == get_chord_from_one_hot_index(ListIndex(est_chord_label, NumChordLabels))
        est_key_string == KeyLabelString(ListIndex(est_key_label, NumKeyLabels), form)
        est_key == UnpackKey(ListIndex(est_key_label, NumKeyLabels))
        same_gt_chord == ~prev.gt_chord.none /\ prev.gt_chord.val = gt_chord_string
        same_gt_key == ~prev.gt_key.none /\ prev.gt_key.val = gt_key_string
        same_est_chord == ~prev.est_chord.none /\ prev.est_chord.val = est_chord_string
        same_est_key == ~prev.est_key.none /\ prev.est_key.val = est_key_string
        key_rows ==
            IF ~same_gt_key \/ ~same_est_key
            THEN <<[kind |-> "key",
                    label |-> IF ~same_est_key THEN Label(est_key_string) ELSE Dashes,
                    onset |-> notes[n].onset,
                    color_name |-> KeyColor(gt_key.tonic, gt_key.mode, est_key.tonic, est_key.mode),
                    note_index |-> n - 1]>>
            ELSE <<>>
        chord_rows ==
            IF ~same_gt_chord \/ ~same_est_chord
            THEN <<[kind |-> "chord",
                    label |-> IF ~same_est_chord THEN Label(<<est_chord_string>>) ELSE Dashes,
                    onset |-> notes[n].onset,
                    color_name |-> ChordColor(gt_chord, est_chord),
                    note_index |-> n - 1]>>
            ELSE <<>>
    IN  IF gt_key.raised # "no" THEN [raised |-> gt_key.raised, rows |-> <<>>]
        ELSE IF same_gt_chord /\ same_gt_key /\ same_est_chord /\ same_est_key
        THEN AnnotationLoop(notes, durations, arrays, form, n + 1, prev, rows)
        ELSE AnnotationLoop(notes, durations, arrays, form, n + 1,
                 [gt_chord |-> Some(gt_chord_string), gt_key |-> Some(gt_key_string),
                  est_chord |-> Some(est_chord_string), est_key |-> Some(est_key_string)],
                 rows \o key_rows \o chord_rows)

\* get_results_annotation_df(state, piece, root_type, tonic_type, ...): self
\* is the piece after the call and ret the rows of the table, or the
\* exception that ended the call.
get_results_annotation_df(state, p, form) ==
    [self |-> get_duration_cache(p).self,
     ret |-> AnnotationLoop(p.notes, get_duration_cache(p).ret, AnnotationArrays(p, state),
                            form, 1, NoStrings, <<>>)]

\* The estimates of a piece of n notes that are annotated: one or two
\* chords on C of any type under one key, or one chord under two keys.
AnnotatedChords == {get_chord_one_hot_index(t, 0, 0) : t \in {"M", "m", "Mm7"}}

AnnotatedStates(n) ==
    {[chords |-> chords, chord_changes |-> changes,
      keys |-> <<get_key_one_hot_index("major", 0)>>, key_changes |-> <<0, n>>] :
        changes \in Segmentations(n), chords \in SeqsUpTo(AnnotatedChords, 1, 2)}
    \cup
    {[chords |-> <<chord>>, chord_changes |-> <<0, n>>, keys |-> keys, key_changes |-> changes] :
        changes \in Segmentations(n), keys \in SeqsUpTo(EstimatedKeys, 2, 2),
        chord \in {get_chord_one_hot_index("M", 0, 0)}}

\* get_results_annotation_df(state, piece, root_type, tonic_type,
\* use_inversions, reduction)
CallGetResultsAnnotationDf ==
    /\ pc = "built"
    /\ \E state \in {e \in AnnotatedStates(Len(piece.notes)) : WellFormedEstimate(e)},
          form \in KeyLabelForms :
          /\ args' = [fn |-> "get_results_annotation_df", state |-> state,
                      key_label_form |-> form]
          /\ piece' = get_results_annotation_df(state, piece, form).self
          /\ ret' = get_results_annotation_df(state, piece, form).ret
    /\ pc' = "annotated"
    /\ UNCHANGED <<notes_df, chords_df, opts>>

NextAnnotate ==
    \/ FromDataFrames
    \/ FromMusicXml
    \/ CallGetResultsAnnotationDf

SpecAnnotate == InitResults /\ [][NextAnnotate]_vars

-----------------------------------------------------------------------------
(* Properties of get_results_annotation_df. *)

Annotated == pc = "annotated" /\ args.fn = "get_results_annotation_df"

RowsOfKind(kind) == {k \in 1..Len(ret.rows) : ret.rows[k].kind = kind}

\* The chord and the key of the ground truth and of the estimate at note n
\* (0-based), as the arrays of labels give them.
GtChordAt(n) ==
    get_chord_from_one_hot_index(
        ListIndex(AnnotationArrays(piece, args.state).gt_chord_labels[n + 1], NumChordLabels))
EstChordAt(n) ==
    get_chord_from_one_hot_index(AnnotationArrays(piece, args.state).estimated_chord_labels[n + 1])
GtKeyAt(n) ==
    get_key_from_one_hot_index(AnnotationArrays(piece, args.state).gt_key_labels[n + 1])
EstKeyAt(n) ==
    get_key_from_one_hot_index(AnnotationArrays(piece, args.state).estimated_key_labels[n + 1])

\* C17: every chord row has one of three colours: green when root, chord
\* type and inversion of ground truth and estimate are equal; orange when
\* it is not green but the roots are equal and the triads of the two chord
\* types are equal; red otherwise.
C17_ChordRowColours ==
    Annotated =>
        \A k \in RowsOfKind("chord") :
            LET gt == GtChordAt(ret.rows[k].note_index)
                est == EstChordAt(ret.rows[k].note_index)
                exact == gt.root = est.root /\ gt.chord_type = est.chord_type
                            /\ gt.inversion = est.inversion
                partial == ~exact /\ gt.root = est.root
                              /\ TRIAD_REDUCTION(gt.chord_type) = TRIAD_REDUCTION(est.chord_type)
            IN  /\ ret.rows[k].color_name \in {"green", "orange", "red"}
                /\ ret.rows[k].color_name = "green" <=> exact
                /\ ret.rows[k].color_name = "orange" <=> partial
                /\ ret.rows[k].color_name = "red" <=> (~exact /\ ~partial)

\* A table with a green and an orange chord row, and one with a red row.
C17_Witness ==
    /\ Annotated
    /\ ret.raised = "no"
    /\ \E k \in RowsOfKind("chord") : ret.rows[k].color_name = "orange"
    /\ \E k \in RowsOfKind("chord") : ret.rows[k].color_name # "orange"
    /\ \E k \in RowsOfKind("chord") :
          GtChordAt(ret.rows[k].note_index).root = EstChordAt(ret.rows[k].note_index).root
          /\ GtChordAt(ret.rows[k].note_index).chord_type # EstChordAt(ret.rows[k].note_index).chord_type

\* C18, as stated: the call gives its rows, and every key row is green
\* when tonic and mode of the key of the ground truth and of the estimated
\* key are equal, orange when only the tonics are equal, and red otherwise.
C18_AsStated ==
    Annotated =>
        /\ ret.raised = "no"
        /\ \A k \in RowsOfKind("key") :
              LET gt == GtKeyAt(ret.rows[k].note_index)
                  est == EstKeyAt(ret.rows[k].note_index)
              IN  ret.rows[k].color_name =
                      IF gt.tonic = est.tonic /\ gt.mode = est.mode THEN "green"
                      ELSE IF gt.tonic = est.tonic THEN "orange"
                           ELSE "red"

\* A red key row at a note whose estimated key is the key of the ground
\* truth.
C18_Witness ==
    /\ Annotated
    /\ ret.raised = "no"
    /\ \E k \in RowsOfKind("key") :
          /\ GtKeyAt(ret.rows[k].note_index) = EstKeyAt(ret.rows[k].note_index)
          /\ ret.rows[k].color_name = "red"

\* C18, what the code does: a call either ends with a ValueError at the
\* first note of a duration other than 0, or colours every key row red.
C18_KeyRowsNeverMatch ==
    Annotated =>
        \/ ret.raised = "ValueError" /\ args.key_label_form # "pair"
        \/ /\ ret.raised = "no"
           /\ \A k \in RowsOfKind("key") : ret.rows[k].color_name = "red"
           /\ args.key_label_form = "pair" \/ \A n \in 1..NumNotes : piece.duration_cache.val[n] = 0

-----------------------------------------------------------------------------
(* forces.convert_score_positions_to_note_indexes: forced labels given at  *)
(* score positions, converted to the indexes of the notes of a piece.      *)

MaxForces == 2

\* A force (mc, mn_onset) or (mc, mn_onset, id): its position force[:2] and,
\* when it has three elements, its id force[-1].
Force(position, id) == [position |-> position, id |-> id]

\* An element of the converted list: index, or (index, id).
NewForce(index, id) == [index |-> index, id |-> id]

\* The loop over the forces, from force i (1-based) on; new_forces holds
\* the forces converted so far.
RECURSIVE ConvertLoop(_, _, _, _)
ConvertLoop(note_positions, forces, i, new_forces) ==
    IF i > Len(forces) THEN [raised |-> "no", new_forces |-> new_forces]
    ELSE LET index == bisect_left(note_positions, forces[i].position, 0)
         IN  IF index >= Len(note_positions)
             THEN [raised |-> "IndexError", new_forces |-> <<>>]
             ELSE IF note_positions[index + 1] # forces[i].position
             THEN [raised |-> "ValueError", new_forces |-> <<>>]
             ELSE ConvertLoop(note_positions, forces, i + 1,
                              Append(new_forces, NewForce(index, forces[i].id)))

\* convert_score_positions_to_note_indexes(forces, piece)
convert_score_positions_to_note_indexes(forces, p) ==
    LET note_positions == [n \in 1..Len(p.notes) |-> p.notes[n].onset]
    IN  ConvertLoop(note_positions, forces, 1, <<>>)

\* The forces of a call: up to MaxForces of them, at the positions of the
\* score and one later, without an id or with one.
ForceIds == {7, 8}
ScoreForces == {Force(t, id) : t \in 0..(MaxTime + 2), id \in {None} \cup {Some(f) : f \in ForceIds}}

CallConvertScorePositions ==
    /\ pc = "built"
    /\ \E forces \in SeqsUpTo(ScoreForces, 1, MaxForces) :
          /\ args' = [fn |-> "convert_score_positions_to_note_indexes", forces |-> forces]
          /\ ret' = convert_score_positions_to_note_indexes(forces, piece)
    /\ pc' = "converted"
    /\ UNCHANGED <<notes_df, chords_df, opts, piece>>

NextForces ==
    \/ FromDataFrames
    \/ FromMusicXml
    \/ CallConvertScorePositions

SpecForces == InitRead /\ [][NextForces]_vars

-----------------------------------------------------------------------------
(* Properties of convert_score_positions_to_note_indexes. *)

Converted == pc = "converted" /\ args.fn = "convert_score_positions_to_note_indexes"

IsNoteOnset(position) == \E n \in 1..NumNotes : piece.notes[n].onset = position

\* The smallest index (0-based) of a note with the onset.
FirstNoteAt(position) ==
    CHOOSE k \in 0..(NumNotes - 1) :
        /\ piece.notes[k + 1].onset = position
        /\ \A m \in 0..(NumNotes - 1) : piece.notes[m + 1].onset = position => k <= m

\* C20, as stated: the call fails with a ValueError when the position of a
\* force is the onset of no note; otherwise it gives, force by force and in
\* their order, the smallest index of a note with the onset of the force,
\* with the id of the force when it has one.
C20_AsStated ==
    Converted =>
        IF \E i \in 1..Len(args.forces) : ~IsNoteOnset(args.forces[i].position)
        THEN ret.raised = "ValueError"
        ELSE /\ ret.raised = "no"
             /\ Len(ret.new_forces) = Len(args.forces)
             /\ \A i \in 1..Len(args.forces) :
                   /\ ret.new_forces[i].index = FirstNoteAt(args.forces[i].position)
                   /\ ret.new_forces[i].id = args.forces[i].id

\* A force later than every note of the piece ends the call with an
\* IndexError.
C20_Witness ==
    /\ Converted
    /\ \E i \in 1..Len(args.forces) :
          \A n \in 1..NumNotes : piece.notes[n].onset < args.forces[i].position
    /\ ret.raised = "IndexError"

\* C20, what the code does: the call fails for a force that is at no
\* onset, with a ValueError when a note begins after the first such force
\* and with an IndexError when none does; otherwise it is as stated.
C20_FailsAtUnalignedForce ==
    Converted =>
        LET unaligned == {i \in 1..Len(args.forces) : ~IsNoteOnset(args.forces[i].position)}
            first == CHOOSE i \in unaligned : \A j \in unaligned : i <= j
        IN  IF unaligned # {}
            THEN ret.raised =
                    IF \E n \in 1..NumNotes : piece.notes[n].onset > args.forces[first].position
                    THEN "ValueError" ELSE "IndexError"
            ELSE /\ ret.raised = "no"
                 /\ Len(ret.new_forces) = Len(args.forces)
                 /\ \A i \in 1..Len(args.forces) :
                       /\ ret.new_forces[i].index = FirstNoteAt(args.forces[i].position)
                       /\ ret.new_forces[i].id = args.forces[i].id

-----------------------------------------------------------------------------
(* Piece.get_chords_within_range over every range of the notes. *)

\* piece.get_chords_within_range(start, stop), for any start and stop among
\* the note indexes of the piece.
CallGetChordsWithinRange ==
    /\ pc = "built"
    /\ \E start \in 0..Len(piece.notes) :
       \E stop \in {None} \cup {Some(k) : k \in 0..Len(piece.notes)} :
          /\ args' = [fn |-> "get_chords_within_range", start |-> start, stop |-> stop]
          /\ ret' = get_chords_within_range(piece, start, stop)
    /\ pc' = "ranged"
    /\ UNCHANGED <<notes_df, chords_df, opts, piece>>

NextRange ==
    \/ FromDataFrames
    \/ FromMusicXml
    \/ CallGetChordsWithinRange

SpecRange == InitRead /\ [][NextRange]_vars

Ranged == pc = "ranged" /\ args.fn = "get_chords_within_range"

\* The chords that have begun when note k (0-based) begins.  The chord
\* sounding at note k is the last of them.
BegunAt(k) == {i \in 1..Len(piece.chords) : piece.chords[i].onset <= piece.notes[k + 1].onset}
SoundingAt(k) == CHOOSE i \in BegunAt(k) : \A j \in BegunAt(k) : j <= i

\* C21, as stated: for 0 <= start < stop <= len(notes), with a chord
\* sounding at note start, the call gives the chords from the one sounding
\* at note start to the one sounding at note stop - 1, in order; without a
\* stop it gives the chords from the one sounding at note start to the last.
C21_AsStated ==
    (/\ Ranged
     /\ args.start < NumNotes
     /\ args.stop.none \/ (args.start < args.stop.val /\ args.stop.val <= NumNotes)
     /\ BegunAt(args.start) # {}) =>
        /\ ret.raised = "no"
        /\ ret.chords =
              SubSeq(piece.chords, SoundingAt(args.start),
                     IF args.stop.none THEN Len(piece.chords)
                     ELSE SoundingAt(args.stop.val - 1))

\* A call whose first chord is not the one sounding at note start: no note
\* begins during it, and it has the change index of the chord after it.
C21_Witness ==
    /\ Ranged
    /\ args.start < NumNotes
    /\ BegunAt(args.start) # {}
    /\ ret.raised = "no"
    /\ Len(ret.chords) > 0
    /\ ret.chords[1] # piece.chords[SoundingAt(args.start)]

\* A call from a note before the first chord, without a stop, that gives
\* the last chord alone of a piece of several chords.
C21_LastChordAlone ==
    /\ Ranged
    /\ args.stop.none
    /\ args.start < piece.chord_changes[1]
    /\ Len(piece.chords) > 1
    /\ ret.chords = <<piece.chords[Len(piece.chords)]>>

\* Every chord has a note that begins during it.
EveryChordHasANote ==
    \A i \in 1..Len(piece.chords) :
        \E n \in 1..NumNotes :
            /\ piece.chords[i].onset <= piece.notes[n].onset
            /\ piece.notes[n].onset < piece.chords[i].offset

\* C21, what the code does: the claim holds for the pieces in which every
\* chord has a note that begins during it.
C21_HoldsWhenEveryChordHasANote ==
    (/\ Ranged
     /\ args.start < NumNotes
     /\ args.stop.none \/ (args.start < args.stop.val /\ args.stop.val <= NumNotes)
     /\ BegunAt(args.start) # {}
     /\ EveryChordHasANote) =>
        /\ ret.raised = "no"
        /\ ret.chords =
              SubSeq(piece.chords, SoundingAt(args.start),
                     IF args.stop.none THEN Len(piece.chords)
                     ELSE SoundingAt(args.stop.val - 1))

-----------------------------------------------------------------------------
(* The one-hot indexes of chords and keys, encoded and decoded, and the    *)
(* step of get_results_df that decodes an estimated label and encodes it   *)
(* again.                                                                  *)

\* hu.get_pitch_string and hu.get_pitch_from_string: the name of a pitch and
\* the pitch of a name.  A pitch class has the name of its spelling with
\* sharps; a pitch of the line of fifths is counted from C.
MidiPitchNames == <<"C", "C#", "D", "D#", "E", "F", "F#", "G", "G#", "A", "A#", "B">>

get_pitch_string(pitch, pitch_type) ==
    IF pitch_type = "MIDI" THEN MidiPitchNames[pitch + 1] ELSE PitchNames[pitch + 1]

get_pitch_from_string(string, pitch_type) ==
    IF pitch_type = "MIDI" THEN IndexIn(MidiPitchNames, string) ELSE IndexIn(PitchNames, string)

\* The label that get_results_df writes for an estimated chord and for an
\* estimated key when the pitch type of the estimate is the one asked for.
ReEncodeChord(chord, pitch_type) ==
    LET decoded == get_chord_from_one_hot_index(chord)
        root == get_pitch_from_string(get_pitch_string(decoded.root, pitch_type), pitch_type)
    IN  get_chord_one_hot_index(decoded.chord_type, root, decoded.inversion)

ReEncodeKey(key, pitch_type) ==
    LET decoded == get_key_from_one_hot_index(key)
        tonic == get_pitch_from_string(get_pitch_string(decoded.tonic, pitch_type), pitch_type)
    IN  get_key_one_hot_index(decoded.mode, tonic)

PitchTypes == {"TPC", "MIDI"}

\* The calls: a chord or a key to encode, or an estimated label to decode
\* and encode again, each within the range of its pitch type.
OneHotCalls ==
    {[fn |-> "get_chord_one_hot_index", pitch_type |-> pt, chord_type |-> ChordTypes[t],
      root |-> r, inversion |-> i] :
        pt \in PitchTypes, t \in 1..Len(ChordTypes), r \in 0..11, i \in 0..(NumInversions - 1)}
    \cup
    {[fn |-> "get_key_one_hot_index", pitch_type |-> pt, mode |-> KeyModes[m], tonic |-> r] :
        pt \in PitchTypes, m \in 1..Len(KeyModes), r \in 0..11}
    \cup
    {[fn |-> "estimated_chord", pitch_type |-> pt, index |-> k] :
        pt \in PitchTypes, k \in 0..(12 * Len(ChordTypes) * NumInversions - 1)}
    \cup
    {[fn |-> "estimated_key", pitch_type |-> pt, index |-> k] :
        pt \in PitchTypes, k \in 0..(12 * Len(KeyModes) - 1)}

InRange(call) ==
    CASE call.fn = "get_chord_one_hot_index" -> call.root < NumPitches(call.pitch_type)
      [] call.fn = "get_key_one_hot_index" -> call.tonic < NumPitches(call.pitch_type)
      [] call.fn = "estimated_chord" ->
            call.index < NumPitches(call.pitch_type) * Len(ChordTypes) * NumInversions
      [] call.fn = "estimated_key" -> call.index < NumPitches(call.pitch_type) * Len(KeyModes)

InitOneHot ==
    /\ notes_df = <<>>
    /\ chords_df = <<>>
    /\ opts = [use_inversions |-> TRUE, use_relative |-> TRUE]
    /\ pc = "call"
    /\ piece = NoPiece
    /\ args \in {call \in OneHotCalls : InRange(call)}
    /\ ret = <<>>

\* hu.get_chord_one_hot_index(chord_type, root, pitch_type, inversion)
EncodeChord ==
    /\ pc = "call"
    /\ args.fn = "get_chord_one_hot_index"
    /\ ret' = [index |-> get_chord_one_hot_index(args.chord_type, args.root, args.inversion)]
    /\ pc' = "encoded"
    /\ UNCHANGED <<notes_df, chords_df, opts, piece, args>>

\* hu.get_chord_from_one_hot_index(index, pitch_type), of the index encoded
DecodeChord ==
    /\ pc = "encoded"
    /\ args.fn = "get_chord_one_hot_index"
    /\ ret' = [index |-> ret.index, decoded |-> get_chord_from_one_hot_index(ret.index)]
    /\ pc' = "decoded"
    /\ UNCHANGED <<notes_df, chords_df, opts, piece, args>>

\* hu.get_key_one_hot_index(mode, tonic, pitch_type)
EncodeKey ==
    /\ pc = "call"
    /\ args.fn = "get_key_one_hot_index"
    /\ ret' = [index |-> get_key_one_hot_index(args.mode, args.tonic)]
    /\ pc' = "encoded"
    /\ UNCHANGED <<notes_df, chords_df, opts, piece, args>>

\* hu.get_key_from_one_hot_index(index, pitch_type), of the index encoded
DecodeKey ==
    /\ pc = "encoded"
    /\ args.fn = "get_key_one_hot_index"
    /\ ret' = [index |-> ret.index, decoded |-> get_key_from_one_hot_index(ret.index)]
    /\ pc' = "decoded"
    /\ UNCHANGED <<notes_df, chords_df, opts, piece, args>>

\* The step of get_results_df for an estimated chord
ReEncodeEstimatedChord ==
    /\ pc = "call"
    /\ args.fn = "estimated_chord"
    /\ ret' = [index |-> ReEncodeChord(args.index, args.pitch_type)]
    /\ pc' = "encoded"
    /\ UNCHANGED <<notes_df, chords_df, opts, piece, args>>

\* The step of get_results_df for an estimated key
ReEncodeEstimatedKey ==
    /\ pc = "call"
    /\ args.fn = "estimated_key"
    /\ ret' = [index |-> ReEncodeKey(args.index, args.pitch_type)]
    /\ pc' = "encoded"
    /\ UNCHANGED <<notes_df, chords_df, opts, piece, args>>

NextOneHot ==
    \/ EncodeChord
    \/ DecodeChord
    \/ EncodeKey
    \/ DecodeKey
    \/ ReEncodeEstimatedChord
    \/ ReEncodeEstimatedKey

SpecOneHot == InitOneHot /\ [][NextOneHot]_vars

\* C22: the index of a chord and of a key lies in the range of its pitch
\* type and decodes to the chord and to the key that were encoded, and an
\* estimated label that is decoded and encoded again under one pitch type
\* is the label it was.
C22_OneHotRoundTrips ==
    /\ (pc = "decoded" /\ args.fn = "get_chord_one_hot_index") =>
          /\ ret.index \in 0..(NumPitches(args.pitch_type) * Len(ChordTypes) * NumInversions - 1)
          /\ ret.decoded = [root |-> args.root, chord_type |-> args.chord_type,
                            inversion |-> args.inversion]
    /\ (pc = "decoded" /\ args.fn = "get_key_one_hot_index") =>
          /\ ret.index \in 0..(NumPitches(args.pitch_type) * Len(KeyModes) - 1)
          /\ ret.decoded = [tonic |-> args.tonic, mode |-> args.mode]
    /\ (pc = "encoded" /\ args.fn \in {"estimated_chord", "estimated_key"}) =>
          ret.index = args.index

\* A chord in first inversion and of the last chord type on the last pitch
\* class, decoded from its index.
C22_Witness ==
    /\ pc = "decoded"
    /\ args.fn = "get_chord_one_hot_index"
    /\ args.pitch_type = "MIDI"
    /\ args.root = 11
    /\ args.inversion = 1
    /\ args.chord_type = ChordTypes[Len(ChordTypes)]
    /\ ret.index = 12 * Len(ChordTypes) * NumInversions - 1

-----------------------------------------------------------------------------
(* Key.from_series with its chain of relative roots, over the whole line   *)
(* of fifths and the twelve pitch classes.                                 *)

MaxChain == 3

\* hc.NUM_PITCHES and hc.TPC_C: the line of fifths runs from Fbb (0) to
\* Bx (34), with C at 15.
NUM_PITCHES(pitch_type) == IF pitch_type = "MIDI" THEN 12 ELSE 35
TPC_C == 15

\* a mod n for any integer a
FloorMod(a, n) == ((a % n) + n) % n

\* A Roman numeral: its accidentals (flats below 0, sharps above), its scale
\* degree (1 to 7) and its case.
Numeral(accidentals, degree, upper) ==
    [accidentals |-> accidentals, degree |-> degree, upper |-> upper]

\* The steps of the scale degrees of a mode above its tonic, in fifths and
\* in semitones.
ScaleIntervals(mode, pitch_type) ==
    IF pitch_type = "MIDI"
    THEN (IF mode = "major" THEN <<0, 2, 4, 5, 7, 9, 11>> ELSE <<0, 2, 3, 5, 7, 8, 10>>)
    ELSE (IF mode = "major" THEN <<0, 2, 4, 0 - 1, 1, 3, 5>>
          ELSE <<0, 2, 0 - 3, 0 - 1, 1, 0 - 4, 0 - 2>>)

\* hc.ACCIDENTAL_ADJUSTMENT: what one sharp adds to a pitch
ACCIDENTAL_ADJUSTMENT(pitch_type) == IF pitch_type = "MIDI" THEN 1 ELSE 7

\* hu.get_interval_from_numeral(numeral, mode, pitch_type)
get_interval_from_numeral(numeral, mode, pitch_type) ==
    ScaleIntervals(mode, pitch_type)[numeral.degree]
        + numeral.accidentals * ACCIDENTAL_ADJUSTMENT(pitch_type)

\* The transposition that wraps around the ends of the line of fifths.
transpose_pitch_wrapping(pitch, interval, pitch_type) ==
    [valid |-> TRUE, pitch |-> FloorMod(pitch + interval, NUM_PITCHES(pitch_type))]

\* hu.transpose_pitch(pitch, interval, pitch_type): a pitch class wraps, a
\* pitch beyond an end of the line of fifths is invalid.
transpose_pitch(pitch, interval, pitch_type) ==
    IF pitch_type = "MIDI"
    THEN [valid |-> TRUE, pitch |-> FloorMod(pitch + interval, NUM_PITCHES(pitch_type))]
    ELSE IF pitch + interval < 0 \/ pitch + interval >= NUM_PITCHES(pitch_type)
         THEN [valid |-> FALSE, pitch |-> 0]
         ELSE [valid |-> TRUE, pitch |-> pitch + interval]

\* The mode that a numeral gives to the key on it.
ModeOfNumeral(numeral) == IF numeral.upper THEN "major" ELSE "minor"

\* The chain of relative roots, from numeral k of the chain down to the
\* first: the chain is applied from the right to the left.
RECURSIVE DecodeRelativeKeys(_, _, _, _, _)
DecodeRelativeKeys(chain, k, tonic, mode, pitch_type) ==
    IF k = 0 THEN [none |-> FALSE, tonic |-> tonic, mode |-> mode]
    ELSE LET moved == transpose_pitch(tonic,
                          get_interval_from_numeral(chain[k], mode, pitch_type), pitch_type)
         IN  IF ~moved.valid THEN [none |-> TRUE, tonic |-> 0, mode |-> mode]
             ELSE DecodeRelativeKeys(chain, k - 1, moved.pitch, ModeOfNumeral(chain[k]),
                                     pitch_type)

\* The tonic of a global key, given on the line of fifths, in a pitch type.
GlobalTonic(globalkey, pitch_type) ==
    IF pitch_type = "MIDI" THEN FloorMod(7 * (globalkey - TPC_C), 12) ELSE globalkey

\* Key.from_series(row, tonic_type, do_relative): the key of a row, or None.
Key_from_series(row, tonic_type, do_relative) ==
    LET global_mode == IF row.globalkey_is_minor THEN "minor" ELSE "major"
        local_mode == IF row.localkey_is_minor THEN "minor" ELSE "major"
        local == transpose_pitch(GlobalTonic(row.globalkey, tonic_type),
                     get_interval_from_numeral(row.localkey, global_mode, tonic_type),
                     tonic_type)
    IN  IF ~local.valid THEN [none |-> TRUE, tonic |-> 0, mode |-> local_mode]
        ELSE IF do_relative
        THEN DecodeRelativeKeys(row.relativeroot, Len(row.relativeroot), local.pitch,
                                local_mode, tonic_type)
        ELSE [none |-> FALSE, tonic |-> local.pitch, mode |-> local_mode]

\* The rows of keys: a global key at an end or in the middle of the line of
\* fifths, a local key, and a chain of up to MaxChain relative roots.
KeyNumerals ==
    {Numeral(0 - 1, 2, TRUE), Numeral(1, 3, TRUE), Numeral(0 - 1, 6, FALSE), Numeral(0, 5, TRUE)}

KeySeries ==
    [globalkey : {1, TPC_C, 33}, globalkey_is_minor : BOOLEAN,
     localkey : {Numeral(0, 1, TRUE), Numeral(0, 3, FALSE), Numeral(0 - 1, 5, TRUE)},
     localkey_is_minor : BOOLEAN,
     relativeroot : SeqsUpTo(KeyNumerals, 0, MaxChain)]

InitKey ==
    /\ notes_df = <<>>
    /\ chords_df = <<>>
    /\ opts = [use_inversions |-> TRUE, use_relative |-> TRUE]
    /\ pc = "call"
    /\ piece = NoPiece
    /\ \E row \in KeySeries, tonic_type \in PitchTypes, do_relative \in BOOLEAN :
          args = [fn |-> "Key.from_series", row |-> row, tonic_type |-> tonic_type,
                  do_relative |-> do_relative]
    /\ ret = <<>>

\* Key.from_series(row, tonic_type, do_relative)
CallKeyFromSeries ==
    /\ pc = "call"
    /\ args.fn = "Key.from_series"
    /\ ret' = Key_from_series(args.row, args.tonic_type, args.do_relative)
    /\ pc' = "returned"
    /\ UNCHANGED <<notes_df, chords_df, opts, piece, args>>

NextKey == CallKeyFromSeries

SpecKey == InitKey /\ [][NextKey]_vars

-----------------------------------------------------------------------------
(* Properties of Key.from_series. *)

KeyReturned == pc = "returned" /\ args.fn = "Key.from_series"

\* Step j of a chain of n numerals takes numeral n + 1 - j, in the mode of
\* the local key for the first step and in the mode of the numeral of the
\* step before for the others.
StepNumeral(j) == args.row.relativeroot[Len(args.row.relativeroot) + 1 - j]
StepMode(j) ==
    IF j = 1 THEN (IF args.row.localkey_is_minor THEN "minor" ELSE "major")
    ELSE ModeOfNumeral(StepNumeral(j - 1))

\* The tonic of the local key, not reduced, and the tonic after the first j
\* steps of the chain.
LocalTonicSum ==
    GlobalTonic(args.row.globalkey, args.tonic_type)
        + get_interval_from_numeral(args.row.localkey,
              IF args.row.globalkey_is_minor THEN "minor" ELSE "major", args.tonic_type)

RECURSIVE TonicAfter(_)
TonicAfter(j) ==
    IF j = 0 THEN LocalTonicSum
    ELSE TonicAfter(j - 1) + get_interval_from_numeral(StepNumeral(j), StepMode(j), args.tonic_type)

OnLineOfFifths(pitch) == 0 <= pitch /\ pitch < NUM_PITCHES("TPC")

\* What test_key_from_series asserts of a chain that repeats one numeral on
\* a local key of the other mode: the interval of the numeral in the mode
\* of the local key, and then in its own mode for every repeat, is added
\* to the tonic of the key without a chain.
KeyTestAssertions ==
    (/\ KeyReturned
     /\ args.do_relative
     /\ Len(args.row.relativeroot) >= 1
     /\ \A j \in 1..Len(args.row.relativeroot) : args.row.relativeroot[j] = args.row.relativeroot[1]
     /\ args.row.localkey_is_minor = args.row.relativeroot[1].upper
     /\ ~Key_from_series([args.row EXCEPT !.relativeroot = <<>>], args.tonic_type, TRUE).none) =>
        LET old_key == Key_from_series([args.row EXCEPT !.relativeroot = <<>>], args.tonic_type, TRUE)
            root_symbol == args.row.relativeroot[1]
            repeats == Len(args.row.relativeroot)
            initial_interval == get_interval_from_numeral(root_symbol,
                                    IF args.row.localkey_is_minor THEN "minor" ELSE "major",
                                    args.tonic_type)
            relative_interval == get_interval_from_numeral(root_symbol,
                                     IF args.row.localkey_is_minor THEN "major" ELSE "minor",
                                     args.tonic_type)
            target == old_key.tonic + initial_interval + (repeats - 1) * relative_interval
        IN  IF args.tonic_type = "MIDI"
            THEN ~ret.none /\ ret.tonic = FloorMod(target, NUM_PITCHES("MIDI"))
            ELSE IF target < 0 \/ target >= NUM_PITCHES("TPC")
                 THEN ret.none
                 ELSE ~ret.none /\ ret.tonic = target

\* C23: with do_relative the chain of relative roots is taken from the
\* right to the left, every numeral in the mode that the step before gave,
\* and its interval added to the tonic; on the line of fifths the key is
\* None exactly when the tonic leaves the line at the local key or at some
\* step, and among the pitch classes the tonic is the sum modulo 12.
C23_RelativeChain ==
    (KeyReturned /\ args.do_relative) =>
        LET n == Len(args.row.relativeroot)
        IN  IF args.tonic_type = "MIDI"
            THEN /\ ~ret.none
                 /\ ret.tonic = FloorMod(TonicAfter(n), 12)
                 /\ ret.mode = StepMode(n + 1)
            ELSE /\ ret.none <=> \E j \in 0..n : ~OnLineOfFifths(TonicAfter(j))
                 /\ ~ret.none => (ret.tonic = TonicAfter(n) /\ ret.mode = StepMode(n + 1))

\* A chain of three relative roots that leaves the line of fifths at its
\* second step and would be back on it after the third.
C23_Witness ==
    /\ KeyReturned
    /\ args.do_relative
    /\ args.tonic_type = "TPC"
    /\ Len(args.row.relativeroot) = 3
    /\ OnLineOfFifths(TonicAfter(1))
    /\ ~OnLineOfFifths(TonicAfter(2))
    /\ OnLineOfFifths(TonicAfter(3))
    /\ ret.none

-----------------------------------------------------------------------------
(* get_score_piece_from_data_frames on frames with rows that give no note  *)
(* and no chord.                                                           *)

\* The rows of the frames: every note row and every chord row also as a row
\* of which Note.from_series or Chord.from_series makes None.
DropNoteRows == NoteRows \cup {[row EXCEPT !.tpc_ok = FALSE] : row \in NoteRows}

DropChordRows ==
    {ChordRow(t, t + 1, t % 2, 0, "I", "NA") : t \in Times}
    \cup {[ChordRow(t, t + 1, t % 2, 0, "I", "NA") EXCEPT !.numeral_ok = FALSE] : t \in Times}

InitDrop ==
    /\ notes_df \in NoteFrames(DropNoteRows, 1, MaxNotes)
    /\ chords_df \in ChordFrames(DropChordRows, 2, MaxChords)
    /\ opts = [use_inversions |-> TRUE, use_relative |-> TRUE]
    /\ pc = "start"
    /\ piece = NoPiece
    /\ args = NoArgs
    /\ ret = <<>>

NextDrop == FromDataFrames

SpecDrop == InitDrop /\ [][NextDrop]_vars

CalledFromDataFrames ==
    pc \in {"built", "failed"} /\ args.fn = "get_score_piece_from_data_frames"

\* The rows of a frame that give an object, in the order of the frame.
GoodNoteRows == SelectSeq(notes_df, LAMBDA row : row.tpc_ok)
GoodChordRows == SelectSeq(chords_df, LAMBDA row : row.numeral_ok)

\* The notes of the piece are the notes of the good rows, one by one; the
\* chords of the piece are the chords of the good rows in their order, a
\* chord standing for the good rows from its own to the next chord's.
RemainingNotesKept ==
    /\ Len(piece.notes) = Len(GoodNoteRows)
    /\ \A i \in 1..Len(GoodNoteRows) : piece.notes[i] = NoteFromSeries(GoodNoteRows[i])

RemainingChordsKept ==
    /\ \A i \in 1..(Len(piece.chords) - 1) : piece.chords[i].onset < piece.chords[i + 1].onset
    /\ \A i \in 1..Len(piece.chords) :
          \E k \in 1..Len(GoodChordRows) :
              /\ GoodChordRows[k].onset = piece.chords[i].onset
              /\ GoodChordRows[k].root = piece.chords[i].root
    /\ \A k \in 1..Len(GoodChordRows) :
          \E i \in 1..Len(piece.chords) :
              /\ piece.chords[i].onset <= GoodChordRows[k].onset
              /\ GoodChordRows[k].offset <= piece.chords[i].offset
              /\ GoodChordRows[k].root = piece.chords[i].root
              /\ GoodChordRows[k].chord_type = piece.chords[i].chord_type

\* C24, as stated: the construction is not aborted by rows that give None,
\* and the piece holds the notes and the chords of all other rows in the
\* order of their rows.
C24_AsStated ==
    CalledFromDataFrames =>
        /\ pc = "built"
        /\ RemainingNotesKept
        /\ RemainingChordsKept

\* A frame of several note rows, and of chord rows of which two or more
\* give a chord, whose construction is aborted: one note row alone gives a
\* note.
C24_Witness ==
    /\ CalledFromDataFrames
    /\ pc = "failed"
    /\ Len(notes_df) > 1
    /\ Len(GoodNoteRows) = 1
    /\ Len(GoodChordRows) >= 2

\* C24, what the code does: when no note or two or more notes remain, and
\* two or more chords, the piece is built and holds what remains, in order;
\* otherwise the construction is aborted.
C24_HoldsWhenEnoughRemain ==
    CalledFromDataFrames =>
        IF Len(GoodNoteRows) # 1 /\ Len(GoodChordRows) >= 2
        THEN pc = "built" /\ RemainingNotesKept /\ RemainingChordsKept
        ELSE pc = "failed"

\* A piece built from frames with a note row and a chord row that give None.
C24_RowsDropped ==
    /\ CalledFromDataFrames
    /\ pc = "built"
    /\ Len(GoodNoteRows) < Len(notes_df)
    /\ Len(GoodChordRows) < Len(chords_df)
    /\ Len(piece.chords) < Len(GoodChordRows)

-----------------------------------------------------------------------------
(* get_range_start on notes of any duration, grace notes of duration 0     *)
(* among them.                                                             *)

\* The notes of a call: they begin at the positions of the score, in order,
\* and last for 0, 1 or 2 positions.
RangeNotes ==
    {[cls |-> "Note", pitch_class |-> 0, octave |-> 5, onset |-> t, offset |-> t + d,
      duration |-> d] : t \in Times, d \in 0..2}

InitRangeStart ==
    /\ notes_df = <<>>
    /\ chords_df = <<>>
    /\ opts = [use_inversions |-> TRUE, use_relative |-> TRUE]
    /\ pc = "call"
    /\ piece = NoPiece
    /\ \E notes \in NoteFrames(RangeNotes, 0, MaxNotes), onset \in 0..(MaxTime + 1) :
          args = [fn |-> "get_range_start", onset |-> onset, notes |-> notes]
    /\ ret = <<>>

\* get_range_start(onset, notes)
CallGetRangeStart ==
    /\ pc = "call"
    /\ args.fn = "get_range_start"
    /\ ret' = [start |-> get_range_start(args.onset, args.notes)]
    /\ pc' = "returned"
    /\ UNCHANGED <<notes_df, chords_df, opts, piece, args>>

NextRangeStart == CallGetRangeStart

SpecRangeStart == InitRangeStart /\ [][NextRangeStart]_vars

RangeStarted == pc = "returned" /\ args.fn = "get_range_start"

\* The index (0-based) of the first note of the call that is in a set of
\* note numbers, or the number of notes when the set is empty.
FirstOf(qualifying) ==
    IF qualifying = {} THEN Len(args.notes)
    ELSE (CHOOSE n \in qualifying : \A m \in qualifying : n <= m) - 1

EndingAfterOnset == {n \in 1..Len(args.notes) : args.notes[n].offset > args.onset}
BeginningAtOrAfterOnset == {n \in 1..Len(args.notes) : args.notes[n].onset >= args.onset}

-----------------------------------------------------------------------------
(* The onset and offset get_chord_note_input hands to the note vectors when
   it is given a chord. *)

\* The chords handed to get_chord_note_input when one is given: their onset
\* and offset may or may not be those derived from the note indices.
AlignChords ==
    {ChordFromSeries(ChordRow(on, off, 0, 0, "I", "NA"), TRUE) :
        on \in 0..MaxTime, off \in 1..(MaxTime + 1)}

InitAlign ==
    /\ notes_df = <<>>
    /\ chords_df = <<>>
    /\ opts = [use_inversions |-> TRUE, use_relative |-> TRUE]
    /\ pc = "call"
    /\ piece = NoPiece
    /\ \E n \in 1..(MaxTime + 1), onset_index \in 0..MaxTime,
          change_index \in 0..MaxTime, offset_index \in 1..(MaxTime + 1),
          window \in 0..1, given \in BOOLEAN, chord \in AlignChords :
          /\ onset_index <= change_index
          /\ change_index < offset_index
          /\ offset_index <= n
          /\ args = [fn |-> "get_chord_note_input",
                     notes |-> WindowNotes(n, 1, 72),
                     chord_onset |-> change_index,
                     chord_offset |-> offset_index,
                     chord_duration |-> offset_index - change_index,
                     change_index |-> change_index,
                     onset_index |-> onset_index,
                     offset_index |-> offset_index,
                     window |-> window,
                     duration_cache |-> Some([k \in 1..n |-> 1]),
                     chord |-> IF given THEN Some(chord) ELSE None]
    /\ ret = <<>>

NextAlign == CallGetChordNoteInput

SpecAlign == InitAlign /\ [][NextAlign]_vars

\* The call has returned the rows of the chord's input.
Aligned == pc = "returned" /\ args.fn = "get_chord_note_input"

OnsetDiffers  == ~args.chord.none /\ args.chord.val.onset # args.chord_onset
OffsetDiffers == ~args.chord.none /\ args.chord.val.offset # args.chord_offset

\* C26: the note vectors carry the onset (the offset) derived from the note
\* indices when no chord is given or the chord's own equals it, and the
\* chord's own when it differs; the onset of a note relative to the chord is
\* computed from the duration cache unless there is no cache or the chord's
\* onset differs from the derived one, and then it is absent.
C26_ChordAlignment ==
    Aligned =>
        \A k \in 1..Len(ret) :
            ~ret[k].zero =>
                /\ ret[k].chord_onset =
                       IF OnsetDiffers THEN args.chord.val.onset ELSE args.chord_onset
                /\ ret[k].chord_offset =
                       IF OffsetDiffers THEN args.chord.val.offset ELSE args.chord_offset
                /\ ret[k].note_onset =
                       IF OnsetDiffers \/ args.duration_cache.none THEN None
                       ELSE Some(NoteIndexOfRow(k - 1) - args.change_index)

\* A chord whose onset and offset both differ from the derived ones is given
\* with a duration cache, and a note of the input is before the change index.
C26_Witness ==
    /\ Aligned
    /\ OnsetDiffers
    /\ OffsetDiffers
    /\ ~args.duration_cache.none
    /\ \E k \in 1..Len(ret) :
           /\ ~ret[k].zero
           /\ NoteIndexOfRow(k - 1) < args.change_index
           /\ ret[k].note_onset = None
           /\ ret[k].chord_onset = args.chord.val.onset

-----------------------------------------------------------------------------
(* extract_forces_from_musescore: the forces read from the labels of a     *)
(* score.                                                                  *)

MaxLabels == 2       \* labels of the score

\* sub in string, for a string given character by character
Contains(string, sub) == \E k \in 1..Len(string) : string[k] = sub

\* any([numeral in tonic_str for numeral in ["v", "i"]]) decides the type
IdType(string) == IF Contains(string, "v") \/ Contains(string, "i") THEN "rel" ELSE "abs"

\* Whether the tonic or root of a label is written as a Roman numeral.
IsRomanNumeral(string) ==
    \E k \in 1..Len(string) : string[k] \in {"I", "V", "i", "v"}

\* The tonics and roots the labels are written with: absolute pitches and
\* Roman numerals, in both cases.
LabelPitches ==
    {<<"C">>, <<"c">>, <<"F", "#">>, <<"b", "b">>,
     <<"V">>, <<"i", "v">>, <<"b", "V", "I", "I">>, <<"I">>}

\* A group of a match that took part in it, and one that did not (None).
NoGroup == [none |-> TRUE, val |-> ""]

\* The labels of a score: "Key: " and a tonic; a chord with its root and,
\* perhaps, the mark of its type; the marks of a change and of no change.
ScoreLabels ==
    {[kind |-> "key", mc |-> 1, mn_onset |-> t, pitch |-> pitch, type_string |-> NoGroup] :
        t \in {0, 1}, pitch \in LabelPitches}
    \cup
    {[kind |-> "chord", mc |-> 1, mn_onset |-> t, pitch |-> pitch, type_string |-> type] :
        t \in {0, 1}, pitch \in LabelPitches, type \in {NoGroup, Some("o")}}
    \cup
    {[kind |-> kind, mc |-> 1, mn_onset |-> t, pitch |-> <<>>, type_string |-> NoGroup] :
        kind \in {"!C", "=C", "!K", "=K"}, t \in {0, 1}}

\* labels.loc[labels["label"].str.fullmatch(regex), ["mc", "mn_onset"]] as a
\* list of pairs
RECURSIVE PositionsOf(_, _)
PositionsOf(labels, kind) ==
    IF labels = <<>> THEN <<>>
    ELSE (IF Head(labels).kind = kind
          THEN <<(<<Head(labels).mc, Head(labels).mn_onset>>)>> ELSE <<>>)
         \o PositionsOf(Tail(labels), kind)

RECURSIVE LabelsOf(_, _)
LabelsOf(labels, kind) ==
    IF labels = <<>> THEN <<>>
    ELSE (IF Head(labels).kind = kind THEN <<Head(labels)>> ELSE <<>>)
         \o LabelsOf(Tail(labels), kind)

\* The first pass of the loop over the key labels: the key's type and id are
\* found and key_ids.append(mc, mn_onset, key_id, id_type) is called with
\* four arguments, which list.append refuses.
KeyLoop(keys) ==
    IF keys = <<>> THEN [raised |-> FALSE, error |-> "", id_type |-> ""]
    ELSE [raised |-> TRUE, error |-> "TypeError", id_type |-> IdType(Head(keys).pitch)]

\* The first pass of the loop over the chord labels: the triad's type is
\* looked up under type_string, which is None when the label has no mark of
\* the type, and chord_ids.append is called with four arguments.
ChordLoop(dcml_labels) ==
    IF dcml_labels = <<>> THEN [raised |-> FALSE, error |-> "", id_type |-> ""]
    ELSE IF Head(dcml_labels).type_string.none
         THEN [raised |-> TRUE, error |-> "KeyError", id_type |-> ""]
         ELSE [raised |-> TRUE, error |-> "TypeError",
               id_type |-> IdType(Head(dcml_labels).pitch)]

\* extract_forces_from_musescore(score_path), for the labels of the score
extract_forces_from_musescore(labels) ==
    LET keys == KeyLoop(LabelsOf(labels, "key"))
        chords == ChordLoop(LabelsOf(labels, "chord"))
        stopped == IF keys.raised THEN keys ELSE chords
    IN  [raised |-> stopped.raised,
         error |-> stopped.error,
         id_type |-> stopped.id_type,
         chord_changes |-> PositionsOf(labels, "!C"),
         chord_non_changes |-> PositionsOf(labels, "=C"),
         key_changes |-> PositionsOf(labels, "!K"),
         key_non_changes |-> PositionsOf(labels, "=K"),
         chords |-> <<>>,
         keys |-> <<>>]

InitExtract ==
    /\ notes_df = <<>>
    /\ chords_df = <<>>
    /\ opts = [use_inversions |-> TRUE, use_relative |-> TRUE]
    /\ pc = "call"
    /\ piece = NoPiece
    /\ \E labels \in SeqsUpTo(ScoreLabels, 0, MaxLabels) :
          args = [fn |-> "extract_forces_from_musescore", labels |-> labels]
    /\ ret = <<>>

CallExtractForces ==
    /\ pc = "call"
    /\ args.fn = "extract_forces_from_musescore"
    /\ LET out == extract_forces_from_musescore(args.labels)
       IN  /\ pc' = IF out.raised THEN "raised" ELSE "returned"
           /\ ret' = out
    /\ UNCHANGED <<notes_df, chords_df, opts, piece, args>>

NextExtract == CallExtractForces

SpecExtract == InitExtract /\ [][NextExtract]_vars

\* The call is over, with a result or with an exception.
Extracted == pc \in {"returned", "raised"} /\ args.fn = "extract_forces_from_musescore"

\* The type the claim gives a tonic or a root.
TypeAsStated(string) == IF IsRomanNumeral(string) THEN "rel" ELSE "abs"

\* C27: the call completes for any labels and returns one tuple in keys for
\* every key label and one in chords for every chord label, of type "rel"
\* when the tonic or root is a Roman numeral and "abs" otherwise.
C27_AsStated ==
    Extracted =>
        LET keys == LabelsOf(args.labels, "key")
            chords == LabelsOf(args.labels, "chord")
        IN  /\ pc = "returned"
            /\ Len(ret.keys) = Len(keys)
            /\ Len(ret.chords) = Len(chords)
            /\ \A k \in 1..Len(keys) :
                   /\ ret.keys[k][1] = keys[k].mc
                   /\ ret.keys[k][2] = keys[k].mn_onset
                   /\ ret.keys[k][4] = TypeAsStated(keys[k].pitch)
            /\ \A k \in 1..Len(chords) :
                   ret.chords[k][4] = TypeAsStated(chords[k].pitch)

\* The only label is a key label with an absolute tonic, and the call raises
\* TypeError at the append.
C27_Witness ==
    /\ Extracted
    /\ Len(args.labels) = 1
    /\ args.labels[1].kind = "key"
    /\ ~IsRomanNumeral(args.labels[1].pitch)
    /\ pc = "raised"
    /\ ret.error = "TypeError"

\* The call completes exactly for the scores without key and chord labels,
\* and then chords and keys are empty.
C27_CompletesWithoutLabels ==
    Extracted =>
        /\ pc = "returned" <=>
               \A k \in 1..Len(args.labels) : args.labels[k].kind \notin {"key", "chord"}
        /\ pc = "returned" => ret.chords = <<>> /\ ret.keys = <<>>

\* An upper-case Roman numeral is given the type of an absolute pitch before
\* the append raises.
C27_UpperCaseNumeralIsAbs ==
    /\ Extracted
    /\ pc = "raised"
    /\ Len(args.labels) >= 1
    /\ args.labels[1].kind = "key"
    /\ args.labels[1].pitch = <<"V">>
    /\ ret.id_type = "abs"

-----------------------------------------------------------------------------
(* The input ranges of the chords of a piece and the notes that            *)
(* get_chord_note_inputs hands over for them.                              *)

\* piece.get_chord_note_inputs(window=window), the last call on the piece.
CallGetChordNoteInputs ==
    /\ pc = "built"
    /\ \E window \in {0, 2} :
          LET out == get_chord_note_inputs(piece, window)
          IN  /\ args' = [fn |-> "get_chord_note_inputs", window |-> window]
              /\ piece' = out.self
              /\ ret' = out.ret
              /\ pc' = IF out.ret.raised THEN "raised" ELSE "returned"
    /\ UNCHANGED <<notes_df, chords_df, opts>>

NextInputs ==
    \/ FromDataFrames
    \/ CallGetChordNoteInputs

SpecInputs == InitRead /\ [][NextInputs]_vars

\* The piece has been built by get_score_piece_from_data_frames, and
\* get_chord_note_inputs may have been called on it.
PieceWithRanges == pc \in {"built", "returned", "raised"}

\* 0 <= start_i <= chord_changes[i] <= end_i <= len(notes) and start_i < end_i
RangeInOrder(i) ==
    LET start == piece.chord_ranges[i][1]
        end   == piece.chord_ranges[i][2]
    IN  /\ 0 <= start
        /\ start <= piece.chord_changes[i]
        /\ piece.chord_changes[i] <= end
        /\ end <= Len(piece.notes)
        /\ start < end

\* C28, as stated: the range of every chord of a built piece is in order and
\* not empty, and get_chord_note_inputs does not fail for want of notes.
C28_AsStated ==
    PieceWithRanges =>
        /\ \A i \in 1..Len(piece.chords) : RangeInOrder(i)
        /\ pc # "raised"

\* A chord of the piece has an empty range, and get_chord_note_inputs called
\* with window 0 has raised at the minimum of no pitches.
C28_Witness ==
    /\ pc = "raised"
    /\ args.fn = "get_chord_note_inputs"
    /\ args.window = 0
    /\ \E i \in 1..Len(piece.chords) : piece.chord_ranges[i][1] = piece.chord_ranges[i][2]

\* The bounds that do hold: both ends of a range are note indices or the
\* number of notes, and the change index is a note index.
C28_RangesWithinNotes ==
    PieceWithRanges =>
        \A i \in 1..Len(piece.chords) :
            /\ piece.chord_ranges[i][1] \in 0..Len(piece.notes)
            /\ piece.chord_ranges[i][2] \in 0..Len(piece.notes)
            /\ piece.chord_changes[i] \in 0..(Len(piece.notes) - 1)

\* With a note beginning within every chord, every range is in order and
\* not empty and the call returns.
C28_HoldsWhenEveryChordHasANote ==
    (PieceWithRanges /\ EveryChordHasANote) =>
        /\ \A i \in 1..Len(piece.chords) : RangeInOrder(i)
        /\ pc # "raised"

-----------------------------------------------------------------------------
(* The keys of a piece built from data frames and the chords at which they *)
(* begin.                                                                  *)

\* Chord rows whose key columns change from row to row, some of them rows
\* for which Key.from_series gives None.
KeyChordRows ==
    {ChordRow(t, t + 1, t % 2, 0, lk, rr) :
        t \in Times, lk \in {"I", "V"}, rr \in {"NA", "V", "Error"}}

InitKeys ==
    /\ notes_df \in NoteFrames(NoteRows, 2, 2)
    /\ chords_df \in ChordFrames(KeyChordRows, 2, MaxChords)
    /\ opts \in [use_inversions : {TRUE}, use_relative : BOOLEAN]
    /\ pc = "start"
    /\ piece = NoPiece
    /\ args = NoArgs
    /\ ret = <<>>

NextKeys == FromDataFrames

SpecKeys == InitKeys /\ [][NextKeys]_vars

\* The row of chords_df that chord i (1-based) of the piece begins with.
ChordRowOf(i) ==
    chords_df[CHOOSE r \in 1..Len(chords_df) : chords_df[r].onset = piece.chords[i].onset]

\* keys and key_changes have the same length, the first key change is at
\* chord 0, and key j is the key of the row of chord key_changes[j].
KeysAligned ==
    /\ Len(piece.keys) = Len(piece.key_changes)
    /\ Len(piece.chords) > 0 => Len(piece.key_changes) > 0 /\ piece.key_changes[1] = 0
    /\ \A j \in 1..Len(piece.key_changes) :
           /\ piece.key_changes[j] \in 0..(Len(piece.chords) - 1)
           /\ j <= Len(piece.keys)
           /\ piece.keys[j] = KeyFromSeries(ChordRowOf(piece.key_changes[j] + 1))

\* A row of the frame for which no key is built.
SomeKeyAbsent == \E r \in 1..Len(chords_df) : KeyIsNone(chords_df[r])

\* C29, as stated: the call returns a piece whose keys and key changes are
\* aligned, also when the key of some key-change row is absent.
C29_AsStated ==
    CalledFromDataFrames => pc = "built" /\ KeysAligned

\* The key of the second row is absent, and the call has failed.
C29_Witness ==
    /\ CalledFromDataFrames
    /\ pc = "failed"
    /\ ~KeyIsNone(chords_df[1])
    /\ KeyIsNone(chords_df[2])

\* Every piece that is returned has its keys and key changes aligned, and
\* the call fails only when the key of some row is absent.
C29_HoldsForReturnedPieces ==
    CalledFromDataFrames =>
        /\ pc = "built" => KeysAligned
        /\ pc = "failed" => SomeKeyAbsent

\* A piece is returned whose keys begin at several chords.
C29_SeveralKeys ==
    /\ CalledFromDataFrames
    /\ pc = "built"
    /\ Len(piece.keys) >= 2
    /\ Len(piece.chords) > Len(piece.keys)

-----------------------------------------------------------------------------
(* get_annotation_df: the label rows of an estimate.                       *)

\* The three arrays of get_annotation_df, one entry per note: the labels of
\* the estimated chords and keys, and the pitches of the estimated chords
\* when use_chord_pitches is set.
EmitArrays(p, state, use_chord_pitches) ==
    [estimated_chord_labels |->
        EstimateArray(Zeros(Len(p.notes), 0), state.chords, state.chord_changes),
     estimated_chord_pitches |->
        IF use_chord_pitches
        THEN EstimateArray(Zeros(Len(p.notes), None), state.chord_pitches, state.chord_changes)
        ELSE Zeros(Len(p.notes), None),
     estimated_key_labels |->
        EstimateArray(Zeros(Len(p.notes), 0), state.keys, state.key_changes)]

NoLabels == [est_chord |-> None, est_key |-> NoString, est_pitches |-> None]

\* The loop with the notes of duration 0 treated as the others are.
RECURSIVE EmitLoopOverEveryNote(_, _, _, _, _, _, _)
EmitLoopOverEveryNote(notes, durations, arrays, form, n, prev, rows) ==
    IF n > Len(notes) THEN rows
    ELSE
    LET est_chord_string == ListIndex(arrays.estimated_chord_labels[n], NumChordLabels)
        est_key_string == KeyLabelString(ListIndex(arrays.estimated_key_labels[n], NumKeyLabels), form)
        est_pitches == arrays.estimated_chord_pitches[n]
        same_chord == ~prev.est_chord.none /\ prev.est_chord.val = est_chord_string
        same_key == ~prev.est_key.none /\ prev.est_key.val = est_key_string
        key_rows ==
            IF ~same_key
            THEN <<[kind |-> "key", label |-> est_key_string,
                    onset |-> notes[n].onset, note_index |-> n - 1]>>
            ELSE <<>>
        chord_rows ==
            IF ~same_chord
            THEN <<[kind |-> "chord", label |-> <<est_chord_string>>,
                    onset |-> notes[n].onset, note_index |-> n - 1]>>
            ELSE <<>>
    IN  IF same_chord /\ same_key /\ est_pitches = prev.est_pitches
        THEN EmitLoopOverEveryNote(notes, durations, arrays, form, n + 1, prev, rows)
        ELSE EmitLoopOverEveryNote(notes, durations, arrays, form, n + 1,
                 [est_chord |-> Some(est_chord_string), est_key |-> Some(est_key_string),
                  est_pitches |-> est_pitches],
                 rows \o key_rows \o chord_rows)

\* The loop over the notes, from note n (1-based) on; prev holds the strings
\* and pitches of the last note that was not skipped and rows the rows so
\* far.  A row keeps, beside its label and position, its kind and the index
\* of its note, which the table of the code does not hold.
RECURSIVE EmitLoop(_, _, _, _, _, _, _)
EmitLoop(notes, durations, arrays, form, n, prev, rows) ==
    IF n > Len(notes) THEN rows
    ELSE IF durations[n] = 0
    THEN EmitLoop(notes, durations, arrays, form, n + 1, prev, rows)
    ELSE
    LET est_chord_string == ListIndex(arrays.estimated_chord_labels[n], NumChordLabels)
        est_key_string == KeyLabelString(ListIndex(arrays.estimated_key_labels[n], NumKeyLabels), form)
        est_pitches == arrays.estimated_chord_pitches[n]
        same_chord == ~prev.est_chord.none /\ prev.est_chord.val = est_chord_string
        same_key == ~prev.est_key.none /\ prev.est_key.val = est_key_string
        key_rows ==
            IF ~same_key
            THEN <<[kind |-> "key", label |-> est_key_string,
                    onset |-> notes[n].onset, note_index |-> n - 1]>>
            ELSE <<>>
        chord_rows ==
            IF ~same_chord
            THEN <<[kind |-> "chord", label |-> <<est_chord_string>>,
                    onset |-> notes[n].onset, note_index |-> n - 1]>>
            ELSE <<>>
    IN  IF same_chord /\ same_key /\ est_pitches = prev.est_pitches
        THEN EmitLoop(notes, durations, arrays, form, n + 1, prev, rows)
        ELSE EmitLoop(notes, durations, arrays, form, n + 1,
                 [est_chord |-> Some(est_chord_string), est_key |-> Some(est_key_string),
                  est_pitches |-> est_pitches],
                 rows \o key_rows \o chord_rows)

\* get_annotation_df(state, piece, root_type, tonic_type, use_inversions,
\* reduction, use_chord_pitches): self is the piece after the call and ret
\* the rows of the table.
get_annotation_df(state, p, form, use_chord_pitches) ==
    LET cached == get_duration_cache(p)
    IN  [self |-> cached.self,
         ret |-> [rows |-> EmitLoop(p.notes, cached.ret,
                                    EmitArrays(p, state, use_chord_pitches),
                                    form, 1, NoLabels, <<>>)]]

\* The estimates of a piece of n notes of which the labels are written: one
\* or two chords on C, the second perhaps the first again, under one or two
\* keys; each chord has pitches of its own.
EmittedChords == {get_chord_one_hot_index(t, 0, 0) : t \in {"M", "m"}}

EmittedStates(n) ==
    {[chords |-> chords, chord_changes |-> chord_changes,
      chord_pitches |-> [i \in 1..Len(chords) |-> Some(i)],
      keys |-> keys, key_changes |-> key_changes] :
        chord_changes \in Segmentations(n), chords \in SeqsUpTo(EmittedChords, 1, 2),
        key_changes \in Segmentations(n), keys \in SeqsUpTo(EstimatedKeys, 1, 2)}

\* get_annotation_df(state, piece, root_type, tonic_type, use_inversions,
\* reduction, use_chord_pitches)
CallGetAnnotationDf ==
    /\ pc = "built"
    /\ \E state \in {e \in EmittedStates(Len(piece.notes)) : WellFormedEstimate(e)},
          use_chord_pitches \in BOOLEAN :
          LET out == get_annotation_df(state, piece, "pair", use_chord_pitches)
          IN  /\ args' = [fn |-> "get_annotation_df", state |-> state,
                          use_chord_pitches |-> use_chord_pitches]
              /\ piece' = out.self
              /\ ret' = out.ret
    /\ pc' = "emitted"
    /\ UNCHANGED <<notes_df, chords_df, opts>>

NextEmit ==
    \/ FromDataFrames
    \/ CallGetAnnotationDf

SpecEmit == InitResults /\ [][NextEmit]_vars

Emitted == pc = "emitted" /\ args.fn = "get_annotation_df"

\* The label of the estimated chord (key) at note n (1-based): that of the
\* segment of the estimate the note lies in.
SegmentOf(changes, n) == CHOOSE i \in 1..(Len(changes) - 1) : changes[i] < n /\ n <= changes[i + 1]
EmittedChordAt(n) == args.state.chords[SegmentOf(args.state.chord_changes, n)]
EmittedKeyAt(n) == args.state.keys[SegmentOf(args.state.key_changes, n)]

\* The notes of the piece that last, and the last of them before note n.
LastingNotes == {n \in 1..Len(piece.notes) : piece.duration_cache.val[n] # 0}
LastingBefore(n) == {m \in LastingNotes : m < n}
PreviousLasting(n) == CHOOSE m \in LastingBefore(n) : \A k \in LastingBefore(n) : k <= m

\* The rows (by their place in the table) of a kind, and those at note n.
EmittedOfKind(kind) == {k \in 1..Len(ret.rows) : ret.rows[k].kind = kind}
EmittedAt(kind, n) == {k \in EmittedOfKind(kind) : ret.rows[k].note_index = n - 1}

\* C30: a note of duration 0 has no row; a note that lasts has one key row
\* when its key label differs from that of the lasting note before it (or
\* it is the first) and none otherwise, and one chord row likewise; the
\* rows follow the notes, the key row of a note before its chord row; two
\* chord rows one after the other have different labels, and so have two
\* key rows.
C30_EmissionRule ==
    Emitted =>
        /\ \A n \in 1..Len(piece.notes) :
               IF n \notin LastingNotes
               THEN EmittedAt("key", n) = {} /\ EmittedAt("chord", n) = {}
               ELSE /\ Cardinality(EmittedAt("key", n)) =
                           IF LastingBefore(n) = {}
                              \/ EmittedKeyAt(n) # EmittedKeyAt(PreviousLasting(n))
                           THEN 1 ELSE 0
                    /\ Cardinality(EmittedAt("chord", n)) =
                           IF LastingBefore(n) = {}
                              \/ EmittedChordAt(n) # EmittedChordAt(PreviousLasting(n))
                           THEN 1 ELSE 0
        /\ \A k \in 1..(Len(ret.rows) - 1) :
               \/ ret.rows[k].note_index < ret.rows[k + 1].note_index
               \/ /\ ret.rows[k].note_index = ret.rows[k + 1].note_index
                  /\ ret.rows[k].kind = "key"
                  /\ ret.rows[k + 1].kind = "chord"
        /\ \A kind \in {"key", "chord"} :
               \A k \in EmittedOfKind(kind), l \in EmittedOfKind(kind) :
                   (k < l /\ \A m \in EmittedOfKind(kind) : ~(k < m /\ m < l))
                       => ret.rows[k].label # ret.rows[l].label

\* The estimate changes its chord at a note of duration 0 and its key at a
\* later note; the table has two chord rows and two key rows, none of them
\* at the note of duration 0.
C30_Witness ==
    /\ Emitted
    /\ Cardinality(EmittedOfKind("chord")) = 2
    /\ Cardinality(EmittedOfKind("key")) = 2
    /\ \E n \in 2..Len(piece.notes) :
           /\ n \notin LastingNotes
           /\ EmittedChordAt(n) # EmittedChordAt(n - 1)

====
